---------------------------- MODULE Spec2Model ----------------------------
(***************************************************************************)
(* Model of the crime-pattern analysis engine, class AIAnalysisService of  *)
(* config/config.js: runComprehensiveAnalysis, its six detectors, the      *)
(* confidence filter, the ranking and the statistics, together with the    *)
(* incident store it queries and the wall clock it reads.                  *)
(*                                                                         *)
(* Numbers.  The engine computes with JavaScript doubles.  The model       *)
(* computes with exact rationals <<n, d>> (d > 0, lowest terms), so that   *)
(* equality of two confidences is equality of the tuples.                  *)
(*                                                                         *)
(* Time.  One unit is one hour.  Hour 0 is Monday 2024-01-01 00:00 local   *)
(* time; all timestamps of the model lie in 2024 and the local zone has no *)
(* daylight-saving change.                                                 *)
(*                                                                         *)
(* Text.  A location is a sequence of one-character strings, so that       *)
(* toLowerCase, trim and the regular-expression match are computed.        *)
(***************************************************************************)
EXTENDS Integers, Sequences, FiniteSets, TLC

(***************************************************************************)
(* Bounds of the model.                                                    *)
(***************************************************************************)
\* the largest number of incidents the store holds at one time
MaxStore == 5

(***************************************************************************)
(* Exact rational arithmetic.                                              *)
(***************************************************************************)
RECURSIVE GCD(_, _)
GCD(a, b) == IF b = 0 THEN a ELSE GCD(b, a % b)

Abs(x) == IF x < 0 THEN -x ELSE x

\* the rational n/d in lowest terms; d > 0
R(n, d) ==
  LET g == GCD(Abs(n), d) IN
  IF n = 0 THEN <<0, 1>> ELSE <<n \div g, d \div g>>

\* the common factors are divided out before the products are formed, so
\* that the intermediate integers stay small
RAdd(a, b) ==
  LET g == GCD(a[2], b[2])
  IN R(a[1] * (b[2] \div g) + b[1] * (a[2] \div g), (a[2] \div g) * b[2])

RMul(a, b) ==
  LET g == IF a[1] = 0 THEN b[2] ELSE GCD(Abs(a[1]), b[2])
      h == IF b[1] = 0 THEN a[2] ELSE GCD(Abs(b[1]), a[2])
  IN R((a[1] \div g) * (b[1] \div h), (a[2] \div h) * (b[2] \div g))

RLe(a, b) ==
  LET g == GCD(a[2], b[2])
  IN a[1] * (b[2] \div g) <= b[1] * (a[2] \div g)

RLt(a, b) ==
  LET g == GCD(a[2], b[2])
  IN a[1] * (b[2] \div g) < b[1] * (a[2] \div g)
RMin(a, b) == IF RLe(a, b) THEN a ELSE b
RMax(a, b) == IF RLe(a, b) THEN b ELSE a
ROne == <<1, 1>>
RZero == <<0, 1>>

(***************************************************************************)
(* Sequences.                                                              *)
(***************************************************************************)
RECURSIVE SelectSeqBy(_, _)
\* Array.prototype.filter with the predicate given as a set of admitted elements
SelectSeqBy(s, keep) ==
  IF s = <<>> THEN <<>>
  ELSE IF Head(s) \in keep
       THEN <<Head(s)>> \o SelectSeqBy(Tail(s), keep)
       ELSE SelectSeqBy(Tail(s), keep)

Range(s) == {s[i] : i \in DOMAIN s}

\* Array.prototype.slice(0, n)
Take(s, n) == IF Len(s) <= n THEN s ELSE SubSeq(s, 1, n)

RECURSIVE SumOver(_, _)
SumOver(s, f) == IF s = <<>> THEN 0 ELSE f[Head(s)] + SumOver(Tail(s), f)

(***************************************************************************)
(* Calendar: Date.prototype.getHours, getDay, getMonth on hour stamps.     *)
(***************************************************************************)
HoursPerDay == 24

\* Date.getHours()
GetHours(t) == t % HoursPerDay

\* Date.getDay(): 0 = Sunday; day 0 of the model is a Monday
GetDay(t) == ((t \div HoursPerDay) + 1) % 7

\* first day-of-year of each month of 2024, months 0..11
MonthStart == <<0, 31, 60, 91, 121, 152, 182, 213, 244, 274, 305, 335>>

\* Date.getMonth(): 0 = January
GetMonth(t) ==
  LET d == t \div HoursPerDay IN
  CHOOSE m \in 0 .. 11 :
    /\ MonthStart[m + 1] <= d
    /\ (m = 11 \/ d < MonthStart[m + 2])

\* the hour stamp of day `dom` (1-based) of month m (0-based), at hour h
At(m, dom, h) == (MonthStart[m + 1] + dom - 1) * HoursPerDay + h

(***************************************************************************)
(* Text: String.prototype.toLowerCase, trim, and a case-insensitive        *)
(* unanchored regular-expression match of a literal.                       *)
(***************************************************************************)
LowerChar(c) ==
  CASE c = "A" -> "a"
    [] c = "B" -> "b"
    [] c = "C" -> "c"
    [] c = "D" -> "d"
    [] OTHER -> c

ToLowerCase(s) == [i \in DOMAIN s |-> LowerChar(s[i])]

RECURSIVE TrimStart(_)
TrimStart(s) ==
  IF s # <<>> /\ Head(s) = " " THEN TrimStart(Tail(s)) ELSE s

RECURSIVE TrimEnd(_)
TrimEnd(s) ==
  IF s # <<>> /\ s[Len(s)] = " " THEN TrimEnd(SubSeq(s, 1, Len(s) - 1)) ELSE s

Trim(s) == TrimEnd(TrimStart(s))

\* { $regex: pat, $options: 'i' } for a pattern without metacharacters
RegexMatchI(s, pat) ==
  \E k \in 0 .. (Len(s) - Len(pat)) :
    ToLowerCase(SubSeq(s, k + 1, k + Len(pat))) = ToLowerCase(pat)


(***************************************************************************)
(* Incidents.  An incident is a record [_id, type, severity, location,     *)
(* dateTime] as the engine reads it.                                       *)
(***************************************************************************)
\* the value of a field the document lacks; every text is a sequence of
\* single characters, so no text equals it
Undefined == <<"undefined">>

LocAb == <<"A", "b">>
LocAbVariant == <<" ", "a", "B", " ">>
LocCd == <<"C", "d">>

Inc(id, loc, ty, sev, t) ==
  [_id |-> id, type |-> ty, severity |-> sev, location |-> loc, dateTime |-> t]

\* the incidents the store may hold: a catalogue of distinct documents
Catalogue ==
  { Inc(1, LocAb, "theft", "critical", At(1, 9, 2)),
    Inc(2, LocAbVariant, "theft", "critical", At(1, 8, 2)),
    Inc(3, LocAb, "theft", "critical", At(1, 2, 2)),
    Inc(4, LocAb, "theft", "low", At(0, 26, 2)),
    Inc(5, LocAb, "theft", "critical", At(1, 4, 2)),
    Inc(6, LocCd, "assault", "moderate", At(1, 9, 14)),
    Inc(7, LocCd, "theft", "low", At(1, 9, 14)),
    Inc(8, LocCd, "assault", "high", At(0, 5, 9)),
    Inc(9, Undefined, "theft", "medium", At(1, 7, 10)),
    Inc(10, LocAb, "assault", "critical", At(1, 9, 3)) }

\* the readings of the wall clock: Saturday 2024-02-10 12:00 and two days later
ClockValues == {At(1, 10, 12), At(1, 12, 12)}

(***************************************************************************)
(* The options a caller passes to runComprehensiveAnalysis.  `given` holds *)
(* the keys the caller supplies; the other keys are undefined and take the *)
(* destructuring defaults.                                                 *)
(***************************************************************************)
Null == "null"

Opt(given, tr, loc, types, minc) ==
  [given |-> given, timeRange |-> tr, location |-> loc, crimeTypes |-> types,
   minConfidence |-> minc]

NoOptions == Opt({}, "", <<>>, <<>>, RZero)

OptionChoices ==
  { NoOptions,
    Opt({"timeRange"}, "7days", <<>>, <<>>, RZero),
    Opt({"timeRange"}, "90days", <<>>, <<>>, RZero),
    Opt({"minConfidence"}, "", <<>>, <<>>, R(7, 10)),
    Opt({"minConfidence"}, "", <<>>, <<>>, R(2, 5)),
    Opt({"crimeTypes"}, "", <<>>, <<"theft">>, RZero),
    Opt({"location"}, "", <<"a", "b">>, <<>>, RZero) }

(***************************************************************************)
(* Grouping: groupByLocation, groupByCrimeType.  An object with string     *)
(* keys is a sequence of [key, members] in the order the keys were first   *)
(* assigned; the keys of the model are not array indices.                  *)
(***************************************************************************)
RECURSIVE AscSeq(_)
\* the elements of a finite set of integers, ascending
AscSeq(S) ==
  IF S = {} THEN <<>>
  ELSE LET m == CHOOSE x \in S : \A y \in S : x <= y
       IN <<m>> \o AscSeq(S \ {m})

\* groups of the elements of s under the key function keys (indexed like s)
GroupByKey(s, keys) ==
  LET firsts == AscSeq({i \in DOMAIN s : \A j \in 1 .. (i - 1) : keys[j] # keys[i]})
  IN [k \in DOMAIN firsts |->
        [key |-> keys[firsts[k]],
         members |-> LET idx == AscSeq({i \in DOMAIN s : keys[i] = keys[firsts[k]]})
                     IN [n \in DOMAIN idx |-> s[idx[n]]]]]

\* incident.location.toLowerCase() raises a TypeError on an undefined location
groupByLocationThrows(incidents) ==
  \E i \in DOMAIN incidents : incidents[i].location = Undefined

groupByLocation(incidents) ==
  GroupByKey(incidents,
             [i \in DOMAIN incidents |-> Trim(ToLowerCase(incidents[i].location))])

groupByCrimeType(incidents) ==
  GroupByKey(incidents, [i \in DOMAIN incidents |-> incidents[i].type])

Ids(incidents) == [i \in DOMAIN incidents |-> incidents[i]._id]

(***************************************************************************)
(* Mathematical analysis methods.                                          *)
(***************************************************************************)
SetMax(S) == CHOOSE x \in S : \A y \in S : y <= x
SetMin(S) == CHOOSE x \in S : \A y \in S : x <= y

\* times.sort() orders the millisecond stamps as strings; the stamps of one
\* year have the same number of digits, and then that is the numeric order
calculateTimeSpan(incidents) ==
  IF Len(incidents) < 2 THEN 0
  ELSE LET times == {incidents[i].dateTime : i \in DOMAIN incidents}
       IN SetMax(times) - SetMin(times)

calculateTimeSpread(incidents) == calculateTimeSpan(incidents)

calculateCrimeDensity(incidents) ==
  LET daysSpan == RMax(ROne, R(calculateTimeSpan(incidents), HoursPerDay))
  IN R(Len(incidents) * daysSpan[2], daysSpan[1])

\* the table keyed by the labels of the stored schema instead
severityMapSchemaLabels(sev) ==
  CASE sev = "minor" -> 1
    [] sev = "moderate" -> 2
    [] sev = "serious" -> 3
    [] sev = "critical" -> 4
    [] OTHER -> 1

severityMap(sev) ==
  CASE sev = "low" -> 1
    [] sev = "medium" -> 2
    [] sev = "high" -> 3
    [] sev = "critical" -> 4
    [] OTHER -> 1

calculateAverageSeverity(incidents) ==
  R(SumOver(incidents, [inc \in Range(incidents) |-> severityMap(inc.severity)]),
    Len(incidents))

\* the weighted combination with the weights of count and density exchanged
calculateHotspotConfidenceSwapped(incidentCount, density, severity, timeSpread) ==
  LET countScore == RMin(ROne, R(incidentCount, 10))
      densityScore == RMin(ROne, RMul(density, R(1, 2)))
      severityScore == RMul(severity, R(1, 4))
      timeScore == IF timeSpread > 0
                   THEN RMin(ROne, R(timeSpread, 30 * HoursPerDay))
                   ELSE RZero
  IN RAdd(RAdd(RMul(countScore, R(3, 10)), RMul(densityScore, R(4, 10))),
          RAdd(RMul(severityScore, R(2, 10)), RMul(timeScore, R(1, 10))))

calculateHotspotConfidence(incidentCount, density, severity, timeSpread) ==
  LET countScore == RMin(ROne, R(incidentCount, 10))
      densityScore == RMin(ROne, RMul(density, R(1, 2)))
      severityScore == RMul(severity, R(1, 4))
      timeScore == IF timeSpread > 0
                   THEN RMin(ROne, R(timeSpread, 30 * HoursPerDay))
                   ELSE RZero
  IN RAdd(RAdd(RMul(countScore, R(4, 10)), RMul(densityScore, R(3, 10))),
          RAdd(RMul(severityScore, R(2, 10)), RMul(timeScore, R(1, 10))))

categorizeRiskLevel(score) ==
  IF RLe(R(7, 10), score) THEN "high"
  ELSE IF RLe(R(5, 10), score) THEN "medium"
  ELSE "low"

assessRiskLevel(confidence, severity, incidentCount) ==
  categorizeRiskLevel(
    RAdd(RAdd(RMul(confidence, R(4, 10)), RMul(RMul(severity, R(1, 4)), R(4, 10))),
         RMul(RMin(ROne, R(incidentCount, 10)), R(2, 10))))

\* an object keyed by a string field, as [key, count] in first-assignment order
Distribution(incidents, field) ==
  LET g == GroupByKey(incidents, [i \in DOMAIN incidents |-> incidents[i][field]])
  IN [k \in DOMAIN g |-> [key |-> g[k].key, count |-> Len(g[k].members)]]

getCrimeTypeDistribution(incidents) == Distribution(incidents, "type")
getSeverityDistribution(incidents) == Distribution(incidents, "severity")

RECURSIVE ReduceKeepGreater(_, _)
\* entries.reduce((a, b) => count[a] > count[b] ? a : b), acc the running a
ReduceKeepGreater(acc, rest) ==
  IF rest = <<>> THEN acc
  ELSE ReduceKeepGreater(IF acc.count > Head(rest).count THEN acc ELSE Head(rest),
                         Tail(rest))

\* the dominant type with ties resolved to the entry listed first
classifyHotspotTypeFirstOfTies(incidents) ==
  LET crimeTypes == getCrimeTypeDistribution(incidents)
      best == SetMax({crimeTypes[k].count : k \in DOMAIN crimeTypes})
  IN crimeTypes[SetMin({k \in DOMAIN crimeTypes : crimeTypes[k].count = best})].key

classifyHotspotType(incidents) ==
  LET crimeTypes == getCrimeTypeDistribution(incidents)
  IN ReduceKeepGreater(Head(crimeTypes), Tail(crimeTypes)).key

(***************************************************************************)
(* Patterns.  A pattern is a record [type, subtype, confidence, location,  *)
(* statistics, relatedIncidents, riskLevel]; relatedIncidents is the       *)
(* sequence of the _id values.  The description, the recommendations, the  *)
(* timePattern and the coordinates are texts and summaries derived from    *)
(* the same inputs and are left out.                                       *)
(***************************************************************************)
Pat(ty, sub, conf, loc, stats, related, risk) ==
  [type |-> ty, subtype |-> sub, confidence |-> conf, location |-> loc,
   statistics |-> stats, relatedIncidents |-> related, riskLevel |-> risk]

NoSubtype == "undefined"
MultipleLocations == <<"Multiple locations">>
CentralArea == <<"Central Area">>

\* the patterns a detector pushes for the elements of s it admits, in order
RECURSIVE Emit(_, _, _)
Emit(s, admit, pat) ==
  IF s = <<>> THEN <<>>
  ELSE (IF admit[Head(s)] THEN <<pat[Head(s)]>> ELSE <<>>)
       \o Emit(Tail(s), admit, pat)

RECURSIVE Flatten(_)
Flatten(ss) == IF ss = <<>> THEN <<>> ELSE Head(ss) \o Flatten(Tail(ss))

(***************************************************************************)
(* detectCrimeHotspots                                                     *)
(***************************************************************************)
HotspotOf(group) ==
  LET locationIncidents == group.members
      density == calculateCrimeDensity(locationIncidents)
      severity == calculateAverageSeverity(locationIncidents)
      timeSpread == calculateTimeSpread(locationIncidents)
      confidence == calculateHotspotConfidence(Len(locationIncidents), density,
                                               severity, timeSpread)
  IN Pat("hotspot", classifyHotspotType(locationIncidents), confidence, group.key,
         [incidentCount |-> Len(locationIncidents), density |-> density,
          averageSeverity |-> severity, timeSpread |-> timeSpread,
          crimeTypes |-> getCrimeTypeDistribution(locationIncidents)],
         Ids(locationIncidents),
         assessRiskLevel(confidence, severity, Len(locationIncidents)))

HotspotAdmits(group) ==
  /\ Len(group.members) >= 3
  /\ RLe(R(4, 10), HotspotOf(group).confidence)

detectCrimeHotspots(incidents) ==
  LET locationGroups == groupByLocation(incidents)
      groups == Range(locationGroups)
  IN Emit(locationGroups,
          [g \in groups |-> HotspotAdmits(g)],
          [g \in groups |-> HotspotOf(g)])

(***************************************************************************)
(* analyzeTemporalPatterns: detectHourlyPatterns, detectDailyPatterns,     *)
(* detectSeasonalPatterns.  The counting objects have integer keys, which  *)
(* Object.entries lists in ascending order.                                *)
(***************************************************************************)
\* the entries [key, count] of the object counting f[dateTime], ascending keys
CountEntries(incidents, f) ==
  LET keys == AscSeq({f[incidents[i].dateTime] : i \in DOMAIN incidents})
  IN [k \in DOMAIN keys |->
        [key |-> keys[k],
         count |-> Cardinality({i \in DOMAIN incidents :
                                  f[incidents[i].dateTime] = keys[k]})]]

RECURSIVE InsertByCount(_, _)
\* x placed behind every entry whose count is not smaller: a stable step
InsertByCount(sorted, x) ==
  IF sorted = <<>> THEN <<x>>
  ELSE IF Head(sorted).count >= x.count
       THEN <<Head(sorted)>> \o InsertByCount(Tail(sorted), x)
       ELSE <<x>> \o sorted

RECURSIVE SortByCountDesc(_)
\* entries.sort(([,a], [,b]) => b - a); Array.prototype.sort is stable
SortByCountDesc(entries) ==
  IF entries = <<>> THEN <<>>
  ELSE InsertByCount(SortByCountDesc(SubSeq(entries, 1, Len(entries) - 1)),
                     entries[Len(entries)])

Times(incidents) == {incidents[i].dateTime : i \in DOMAIN incidents}

\* the filter comparing the number with the unparsed text of the key: no match
WithKeyUnparsed(incidents, f, key) == <<>>

\* incidents.filter(inc => f(inc.dateTime) === key)
WithKey(incidents, f, key) ==
  SelectSeqBy(incidents, {inc \in Range(incidents) : f[inc.dateTime] = key})

\* (count / total * 100).toFixed(1), as the number of tenths
PercentTenths(count, total) == (2000 * count + total) \div (2 * total)

TemporalRisk(confidence) ==
  IF RLt(R(7, 10), confidence) THEN "high"
  ELSE IF RLt(R(5, 10), confidence) THEN "medium"
  ELSE "low"

HourlyOf(incidents, entry) ==
  LET confidence == RMin(R(9, 10), R(entry.count * 4, Len(incidents)))
      f == [t \in Times(incidents) |-> GetHours(t)]
  IN Pat("temporal-pattern", "hourly", confidence, MultipleLocations,
         [peakHour |-> entry.key, incidentCount |-> entry.count,
          percentage |-> PercentTenths(entry.count, Len(incidents))],
         Ids(WithKey(incidents, f, entry.key)),
         TemporalRisk(confidence))

\* the hourly analysis keeping the two largest buckets only
detectHourlyPatternsTopTwo(incidents) ==
  LET f == [t \in Times(incidents) |-> GetHours(t)]
      sortedHours == Take(SortByCountDesc(CountEntries(incidents, f)), 2)
      es == Range(sortedHours)
  IN Emit(sortedHours,
          [e \in es |-> e.count >= 3],
          [e \in es |-> HourlyOf(incidents, e)])

detectHourlyPatterns(incidents) ==
  LET f == [t \in Times(incidents) |-> GetHours(t)]
      sortedHours == Take(SortByCountDesc(CountEntries(incidents, f)), 3)
      es == Range(sortedHours)
  IN Emit(sortedHours,
          [e \in es |-> e.count >= 3],
          [e \in es |-> HourlyOf(incidents, e)])

DailyOf(incidents, entry) ==
  LET confidence == RMin(R(85, 100), R(entry.count * 3, Len(incidents)))
      f == [t \in Times(incidents) |-> GetDay(t)]
  IN Pat("temporal-pattern", "daily", confidence, MultipleLocations,
         [peakDay |-> entry.key, incidentCount |-> entry.count,
          percentage |-> PercentTenths(entry.count, Len(incidents))],
         Ids(WithKey(incidents, f, entry.key)),
         TemporalRisk(confidence))

detectDailyPatterns(incidents) ==
  LET f == [t \in Times(incidents) |-> GetDay(t)]
      sortedDays == Take(SortByCountDesc(CountEntries(incidents, f)), 2)
      es == Range(sortedDays)
  IN Emit(sortedDays,
          [e \in es |-> e.count >= 3],
          [e \in es |-> DailyOf(incidents, e)])

detectSeasonalPatterns(incidents) ==
  LET f == [t \in Times(incidents) |-> GetMonth(t)]
      entries == CountEntries(incidents, f)
      maxMonth == ReduceKeepGreater(Head(entries), Tail(entries))
      confidence == RMin(R(8, 10), R(maxMonth.count * 2, Len(incidents)))
  IN IF maxMonth.count >= 4
     THEN <<Pat("temporal-pattern", "seasonal", confidence, MultipleLocations,
                [peakMonth |-> maxMonth.key, incidentCount |-> maxMonth.count,
                 percentage |-> PercentTenths(maxMonth.count, Len(incidents))],
                Ids(WithKey(incidents, f, maxMonth.key)),
                IF RLt(R(6, 10), confidence) THEN "medium" ELSE "low")>>
     ELSE <<>>

analyzeTemporalPatterns(incidents) ==
  detectHourlyPatterns(incidents) \o detectDailyPatterns(incidents)
    \o detectSeasonalPatterns(incidents)

(***************************************************************************)
(* detectCrimeSeries                                                       *)
(***************************************************************************)
\* a clustering that returns the input as two clusters sharing every incident
findCrimeClustersOverlapping(incidents) == <<incidents, incidents>>

\* the placeholder returns its input as the one cluster
findCrimeClusters(incidents) == <<incidents>>

\* the series confidence without the factor 0.8
calculateSeriesConfidenceUnscaled(cluster) == RMin(R(9, 10), R(Len(cluster), 5))

calculateSeriesConfidence(cluster) ==
  RMin(R(9, 10), RMul(R(Len(cluster), 5), R(8, 10)))

calculateGeographicSpread(incidents) == ROne
detectEscalationPattern(incidents) == "stable"
assessSeriesRisk(incidents, confidence) == categorizeRiskLevel(confidence)

SeriesOf(crimeType, cluster) ==
  LET confidence == calculateSeriesConfidence(cluster)
  IN Pat("crime-series", crimeType, confidence, MultipleLocations,
         [incidentCount |-> Len(cluster), timeSpan |-> calculateTimeSpan(cluster),
          geographicSpread |-> calculateGeographicSpread(cluster),
          escalationPattern |-> detectEscalationPattern(cluster)],
         Ids(cluster),
         assessSeriesRisk(cluster, confidence))

SeriesOfGroup(group) ==
  IF Len(group.members) >= 3
  THEN LET clusters == findCrimeClusters(group.members)
           cs == Range(clusters)
       IN Emit(clusters,
               [c \in cs |-> /\ Len(c) >= 3
                             /\ RLe(R(5, 10), calculateSeriesConfidence(c))],
               [c \in cs |-> SeriesOf(group.key, c)])
  ELSE <<>>

detectCrimeSeries(incidents) ==
  LET crimeTypeGroups == groupByCrimeType(incidents)
  IN Flatten([k \in DOMAIN crimeTypeGroups |-> SeriesOfGroup(crimeTypeGroups[k])])

(***************************************************************************)
(* performGeographicClustering                                             *)
(***************************************************************************)
\* estimateCoordinates reads location.length: a TypeError on undefined
performGeographicClusteringThrows(incidents) ==
  \E i \in DOMAIN incidents : incidents[i].location = Undefined

\* the placeholder returns its input as the one cluster, whatever the distance
clusterByDistance(locationData, maxDistance) == <<locationData>>

calculateClusterConfidence(cluster) == RMin(R(8, 10), R(Len(cluster), 8))
assessClusterRisk(cluster, confidence) == categorizeRiskLevel(confidence)

ClusterOf(cluster) ==
  LET confidence == calculateClusterConfidence(cluster)
  IN Pat("geographic-cluster", NoSubtype, confidence, CentralArea,
         [incidentCount |-> Len(cluster), radius |-> 500,
          density |-> R(Len(cluster), 1000), crimeTypes |-> <<>>],
         Ids(cluster),
         assessClusterRisk(cluster, confidence))

performGeographicClustering(incidents) ==
  LET geoClusters == clusterByDistance(incidents, 1000)
      cs == Range(geoClusters)
  IN Emit(geoClusters,
          [c \in cs |-> /\ Len(c) >= 4
                        /\ RLe(R(4, 10), calculateClusterConfidence(c))],
          [c \in cs |-> ClusterOf(c)])

(***************************************************************************)
(* predictFutureHotspots, analyzeTrends.  `now` is the reading of the      *)
(* clock the filter takes.                                                 *)
(***************************************************************************)
\* daysDiff <= days, with daysDiff = (now - dateTime) / one day
WithinDays(incidents, now, days) ==
  SelectSeqBy(incidents,
              {inc \in Range(incidents) : now - inc.dateTime <= days * HoursPerDay})

\* a trend whose confidence grows by a third per incident
analyzeTrendsSteeper(incidents) ==
  LET locationGroups == groupByLocation(incidents)
      groups == Range(locationGroups)
  IN Emit(locationGroups,
          [g \in groups |-> Len(g.members) >= 2],
          [g \in groups |->
             [location |-> g.key, currentCount |-> Len(g.members),
              isIncreasing |-> TRUE,
              confidence |-> RMin(R(8, 10), R(Len(g.members), 3)),
              growthRate |-> R(1, 10), incidents |-> g.members]])

\* the entries of the trends object: one per location group of two or more
analyzeTrends(incidents) ==
  LET locationGroups == groupByLocation(incidents)
      groups == Range(locationGroups)
  IN Emit(locationGroups,
          [g \in groups |-> Len(g.members) >= 2],
          [g \in groups |->
             [location |-> g.key, currentCount |-> Len(g.members),
              isIncreasing |-> TRUE,
              confidence |-> RMin(R(8, 10), R(Len(g.members), 5)),
              growthRate |-> R(1, 10), incidents |-> g.members]])

assessPredictiveRisk(trend) == categorizeRiskLevel(trend.confidence)

PredictionOf(trend) ==
  Pat("predictive-hotspot", NoSubtype, RMul(trend.confidence, R(8, 10)),
      trend.location,
      [currentIncidents |-> trend.currentCount, trendDirection |-> "increasing",
       growthRate |-> trend.growthRate, predictionWindow |-> "7-14 days"],
      Ids(trend.incidents),
      assessPredictiveRisk(trend))

\* the predictive detector without the 14-day window
predictFutureHotspotsWholeInput(incidents, now) ==
  LET locationTrends == analyzeTrends(incidents)
      ts == Range(locationTrends)
  IN Emit(locationTrends,
          [t \in ts |-> t.isIncreasing /\ RLe(R(6, 10), t.confidence)],
          [t \in ts |-> PredictionOf(t)])

predictFutureHotspots(incidents, now) ==
  LET recentIncidents == WithinDays(incidents, now, 14)
      locationTrends == analyzeTrends(recentIncidents)
      ts == Range(locationTrends)
  IN Emit(locationTrends,
          [t \in ts |-> t.isIncreasing /\ RLe(R(6, 10), t.confidence)],
          [t \in ts |-> PredictionOf(t)])

(***************************************************************************)
(* assessAreaRisk, calculateRiskScore, getRecentActivityLevel              *)
(***************************************************************************)
\* the recent-activity level over a window of 9 days
getRecentActivityLevelNineDays(incidents, now) ==
  RMin(ROne, R(Len(WithinDays(incidents, now, 9)) * 2, Len(incidents)))

getRecentActivityLevel(incidents, now) ==
  RMin(ROne, R(Len(WithinDays(incidents, now, 7)) * 2, Len(incidents)))

\* the risk score with the weights of severity and recent activity exchanged
calculateRiskScoreSwapped(incidents, now) ==
  LET severityScore == RMul(calculateAverageSeverity(incidents), R(1, 4))
      frequencyScore == RMin(ROne, R(Len(incidents), 10))
      recentActivityScore == getRecentActivityLevel(incidents, now)
  IN RAdd(RAdd(RMul(severityScore, R(2, 10)), RMul(frequencyScore, R(4, 10))),
          RMul(recentActivityScore, R(4, 10)))

calculateRiskScore(incidents, now) ==
  LET severityScore == RMul(calculateAverageSeverity(incidents), R(1, 4))
      frequencyScore == RMin(ROne, R(Len(incidents), 10))
      recentActivityScore == getRecentActivityLevel(incidents, now)
  IN RAdd(RAdd(RMul(severityScore, R(4, 10)), RMul(frequencyScore, R(4, 10))),
          RMul(recentActivityScore, R(2, 10)))

RiskOf(group, now) ==
  LET locationIncidents == group.members
      riskScore == calculateRiskScore(locationIncidents, now)
      riskLevel == categorizeRiskLevel(riskScore)
  IN Pat("risk-assessment", NoSubtype, RMin(R(9, 10), RAdd(riskScore, R(1, 10))),
         group.key,
         [riskScore |-> riskScore, riskLevel |-> riskLevel,
          incidentCount |-> Len(locationIncidents),
          severityDistribution |-> getSeverityDistribution(locationIncidents),
          recentActivity |-> getRecentActivityLevel(locationIncidents, now)],
         Ids(locationIncidents),
         riskLevel)

\* the assessor emitting from a risk score of 0.3
assessAreaRiskLowGate(incidents, now) ==
  LET locationGroups == groupByLocation(incidents)
      groups == Range(locationGroups)
  IN Emit(locationGroups,
          [g \in groups |-> RLe(R(3, 10), calculateRiskScore(g.members, now))],
          [g \in groups |-> RiskOf(g, now)])

assessAreaRisk(incidents, now) ==
  LET locationGroups == groupByLocation(incidents)
      groups == Range(locationGroups)
  IN Emit(locationGroups,
          [g \in groups |-> RLe(R(5, 10), calculateRiskScore(g.members, now))],
          [g \in groups |-> RiskOf(g, now)])

(***************************************************************************)
(* Combination, ranking and statistics of runComprehensiveAnalysis.        *)
(***************************************************************************)
\* a comparator that lacks the secondary key
ComparatorConfidenceOnly(a, b) == RLt(b.confidence, a.confidence)

\* the comparator of allPatterns.sort is negative: a is placed before b
ComparatorNegative(a, b) ==
  IF b.confidence # a.confidence
  THEN RLt(b.confidence, a.confidence)
  ELSE Len(b.relatedIncidents) < Len(a.relatedIncidents)

RECURSIVE InsertPattern(_, _)
\* x placed behind every pattern the comparator does not place after it
InsertPattern(sorted, x) ==
  IF sorted = <<>> THEN <<x>>
  ELSE IF ComparatorNegative(x, Head(sorted))
       THEN <<x>> \o sorted
       ELSE <<Head(sorted)>> \o InsertPattern(Tail(sorted), x)

RECURSIVE SortPatterns(_)
\* Array.prototype.sort with that comparator: a stable sort
SortPatterns(patterns) ==
  IF patterns = <<>> THEN <<>>
  ELSE InsertPattern(SortPatterns(SubSeq(patterns, 1, Len(patterns) - 1)),
                     patterns[Len(patterns)])

\* a concatenation that spreads the risk assessments first
ConcatenationRiskFirst(res) ==
  res.riskAssessment \o res.hotspots \o res.temporalPatterns \o res.crimeSeries
    \o res.geographicClusters \o res.predictiveHotspots

\* [...hotspots, ...temporalPatterns, ...crimeSeries, ...geographicClusters,
\*  ...predictiveHotspots, ...riskAssessment]
Concatenation(res) ==
  res.hotspots \o res.temporalPatterns \o res.crimeSeries
    \o res.geographicClusters \o res.predictiveHotspots \o res.riskAssessment

\* the combination with the confidence filter left out
FilterByConfidenceDropped(patterns, minConfidence) == patterns

\* .filter(pattern => pattern.confidence >= minConfidence)
FilterByConfidence(patterns, minConfidence) ==
  SelectSeqBy(patterns,
              {p \in Range(patterns) : RLe(minConfidence, p.confidence)})

RankedPatterns(res, minConfidence) ==
  SortPatterns(FilterByConfidence(Concatenation(res), minConfidence))

generateBasicStats(incidents) ==
  [totalIncidents |-> Len(incidents),
   timeRange |-> IF Len(incidents) > 0
                 THEN <<incidents[Len(incidents)].dateTime, incidents[1].dateTime>>
                 ELSE <<>>,
   crimeTypes |-> getCrimeTypeDistribution(incidents),
   severityDistribution |-> getSeverityDistribution(incidents)]

CountWhere(patterns, S) == Cardinality({i \in DOMAIN patterns : patterns[i] \in S})

\* the histogram taken of the patterns that pass the default filter of 0.5
calculateConfidenceDistributionAfterFilter(res) ==
  LET allPatterns == FilterByConfidence(Concatenation(res), R(5, 10))
      ps == Range(allPatterns)
      high == {p \in ps : RLe(R(7, 10), p.confidence)}
  IN [high |-> CountWhere(allPatterns, high),
      medium |-> CountWhere(allPatterns, ps \ high),
      low |-> 0]

calculateConfidenceDistribution(res) ==
  LET allPatterns == Concatenation(res)
      ps == Range(allPatterns)
      high == {p \in ps : RLe(R(7, 10), p.confidence)}
      medium == {p \in ps \ high : RLe(R(5, 10), p.confidence)}
  IN [high |-> CountWhere(allPatterns, high),
      medium |-> CountWhere(allPatterns, medium),
      low |-> CountWhere(allPatterns, ps \ (high \cup medium))]

calculateRiskDistribution(res) ==
  LET allPatterns == Concatenation(res)
      ps == Range(allPatterns)
  IN [level \in {"high", "medium", "low"} |->
        CountWhere(allPatterns, {p \in ps : p.riskLevel = level})]

generateAdvancedStats(incidents, res) ==
  [totalIncidents |-> Len(incidents),
   timeRange |-> generateBasicStats(incidents).timeRange,
   crimeTypes |-> getCrimeTypeDistribution(incidents),
   severityDistribution |-> getSeverityDistribution(incidents),
   patternsDetected |->
     [hotspots |-> Len(res.hotspots),
      temporalPatterns |-> Len(res.temporalPatterns),
      crimeSeries |-> Len(res.crimeSeries),
      geographicClusters |-> Len(res.geographicClusters),
      predictiveHotspots |-> Len(res.predictiveHotspots),
      riskAssessments |-> Len(res.riskAssessment)],
   confidenceDistribution |-> calculateConfidenceDistribution(res),
   riskLevelDistribution |-> calculateRiskDistribution(res)]

(***************************************************************************)
(* getFilteredIncidents: the query filter, and the store's answer to       *)
(* Incident.find(filter).sort({ dateTime: -1 }).                           *)
(***************************************************************************)
\* const { timeRange = '30days', location = null, crimeTypes = [],
\*         minConfidence = 0.5 } = options
Destructured(options) ==
  [timeRange |-> IF "timeRange" \in options.given THEN options.timeRange
                 ELSE "30days",
   location |-> IF "location" \in options.given THEN options.location ELSE <<>>,
   crimeTypes |-> IF "crimeTypes" \in options.given THEN options.crimeTypes
                  ELSE <<>>,
   minConfidence |-> IF "minConfidence" \in options.given
                     THEN options.minConfidence ELSE R(5, 10)]

\* the switch on filters.timeRange
RangeDays(timeRange) ==
  CASE timeRange = "7days" -> 7
    [] timeRange = "30days" -> 30
    [] timeRange = "90days" -> 90
    [] timeRange = "1year" -> 365
    [] OTHER -> 30

\* '' and null are falsy
Truthy(text) == text # "" /\ text # Null

\* a filter key is <<>> when the filter lacks it and <<value>> otherwise
getFilteredIncidents(filters, now) ==
  [dateTime |-> IF Truthy(filters.timeRange)
                THEN <<now - RangeDays(filters.timeRange) * HoursPerDay>>
                ELSE <<>>,
   location |-> IF filters.location # <<>> THEN <<filters.location>> ELSE <<>>,
   type |-> IF Len(filters.crimeTypes) > 0 THEN <<Range(filters.crimeTypes)>>
            ELSE <<>>]

Matches(doc, filter) ==
  /\ filter.dateTime = <<>> \/ doc.dateTime >= filter.dateTime[1]
  /\ \/ filter.location = <<>>
     \/ /\ doc.location # Undefined
        /\ RegexMatchI(doc.location, filter.location[1])
  /\ filter.type = <<>> \/ doc.type \in filter.type[1]

RECURSIVE SortedByDateDesc(_)
\* the orders the store may return docs in: dateTime descending, documents of
\* equal dateTime in any order
SortedByDateDesc(docs) ==
  IF docs = {} THEN {<<>>}
  ELSE UNION { {<<d>> \o rest : rest \in SortedByDateDesc(docs \ {d})} :
               d \in {x \in docs : \A y \in docs : y.dateTime <= x.dateTime} }

Find(docs, filter) == SortedByDateDesc({d \in docs : Matches(d, filter)})

(***************************************************************************)
(* State.                                                                  *)
(***************************************************************************)
VARIABLES
  store,   \* the documents of the Incident collection
  clock,   \* the wall clock, in hours
  runs     \* the calls of runComprehensiveAnalysis, by caller

vars == <<store, clock, runs>>

RunIds == {"r1", "r2"}

NoFilter == [dateTime |-> <<>>, location |-> <<>>, type |-> <<>>]

NoResults ==
  [hotspots |-> <<>>, temporalPatterns |-> <<>>, crimeSeries |-> <<>>,
   geographicClusters |-> <<>>, predictiveHotspots |-> <<>>,
   riskAssessment |-> <<>>]

\* a call that has not been made
IdleRun ==
  [pc |-> "idle", options |-> NoOptions, filter |-> NoFilter, finds |-> 0,
   fetch |-> "none", incidents |-> <<>>, analysisResults |-> NoResults, invoked |-> <<>>,
   nowPredictive |-> 0, nowRisk |-> 0, result |-> [kind |-> "none"]]

Init ==
  /\ store = {}
  /\ clock = SetMin(ClockValues)
  /\ runs = [r \in RunIds |-> IdleRun]

InFlight(r) == runs[r].pc \notin {"idle", "done", "rejected"}

(***************************************************************************)
(* The environment: the routes that create incidents, and time passing.    *)
(***************************************************************************)
\* POST /incidents: new Incident({...}).save()
InsertIncident(inc) ==
  /\ inc \notin store
  /\ Cardinality(store) < MaxStore
  /\ store' = store \cup {inc}
  /\ UNCHANGED <<clock, runs>>

Tick ==
  /\ \E c \in ClockValues : c > clock /\ clock' = c
  /\ UNCHANGED <<store, runs>>

(***************************************************************************)
(* runComprehensiveAnalysis, one action per stretch between two awaits.    *)
(***************************************************************************)
Rejected(run, error) ==
  [run EXCEPT !.pc = "rejected", !.result = [kind |-> "rejected", error |-> error]]

\* the call up to `await this.getFilteredIncidents(...)`: the filter is built
\* and the query is sent
Start(r, options) ==
  /\ runs[r].pc = "idle"
  /\ runs' = [runs EXCEPT ![r] =
       [IdleRun EXCEPT
          !.pc = "fetching",
          !.options = options,
          !.filter = getFilteredIncidents(Destructured(options), clock),
          !.finds = 1,
          !.fetch = "pending"]]
  /\ UNCHANGED <<store, clock>>

\* the query fails: the await throws and nothing catches it
FetchFails(r) ==
  /\ runs[r].pc = "fetching"
  /\ runs' = [runs EXCEPT ![r] = Rejected([@ EXCEPT !.fetch = "failed"], "retrieval")]
  /\ UNCHANGED <<store, clock>>

\* the short-circuit of lines 90-97
InsufficientData(run, incidents) ==
  [run EXCEPT
     !.pc = "done",
     !.fetch = "ok",
     !.incidents = incidents,
     !.result = [kind |-> "returned", success |-> FALSE, patterns |-> <<>>,
                 statistics |-> generateBasicStats(incidents)]]

\* the length test with the threshold 2
AfterFetchThresholdTwo(run, incidents) ==
  IF Len(incidents) < 2 THEN InsufficientData(run, incidents)
  ELSE IF groupByLocationThrows(incidents)
  THEN Rejected([run EXCEPT !.fetch = "ok", !.incidents = incidents,
                            !.invoked = <<"hotspots">>], "TypeError")
  ELSE [run EXCEPT
          !.pc = "temporalPatterns",
          !.fetch = "ok",
          !.incidents = incidents,
          !.invoked = <<"hotspots">>,
          !.analysisResults.hotspots = detectCrimeHotspots(incidents)]

\* the first detector, called in the same stretch as the length test
AfterFetch(run, incidents) ==
  IF Len(incidents) < 3 THEN InsufficientData(run, incidents)
  ELSE IF groupByLocationThrows(incidents)
  THEN Rejected([run EXCEPT !.fetch = "ok", !.incidents = incidents,
                            !.invoked = <<"hotspots">>], "TypeError")
  ELSE [run EXCEPT
          !.pc = "temporalPatterns",
          !.fetch = "ok",
          !.incidents = incidents,
          !.invoked = <<"hotspots">>,
          !.analysisResults.hotspots = detectCrimeHotspots(incidents)]

\* a fetch that removes from the store the documents it returns
FetchReturnsAndRemoves(r) ==
  /\ runs[r].pc = "fetching"
  /\ \E incidents \in Find(store, runs[r].filter) :
       /\ runs' = [runs EXCEPT ![r] = AfterFetch(@, incidents)]
       /\ store' = store \ Range(incidents)
  /\ UNCHANGED clock

\* the query answers with the documents that match at that moment
FetchReturns(r) ==
  /\ runs[r].pc = "fetching"
  /\ \E incidents \in Find(store, runs[r].filter) :
       runs' = [runs EXCEPT ![r] = AfterFetch(@, incidents)]
  /\ UNCHANGED <<store, clock>>

\* a temporal analysis that reads the incidents another run has fetched, as if
\* the service instance shared by the callers kept them
TemporalOfSharedFetch(r) ==
  /\ runs[r].pc = "temporalPatterns"
  /\ LET others == {o \in RunIds \ {r} : runs[o].fetch = "ok"}
         shared == IF others = {} THEN runs[r].incidents
                   ELSE runs[CHOOSE o \in others : TRUE].incidents
     IN runs' = [runs EXCEPT ![r] =
          [@ EXCEPT !.pc = "crimeSeries",
                    !.invoked = Append(@, "temporalPatterns"),
                    !.analysisResults.temporalPatterns =
                       analyzeTemporalPatterns(shared)]]
  /\ UNCHANGED <<store, clock>>

Temporal(r) ==
  /\ runs[r].pc = "temporalPatterns"
  /\ runs' = [runs EXCEPT ![r] =
       [@ EXCEPT !.pc = "crimeSeries",
                 !.invoked = Append(@, "temporalPatterns"),
                 !.analysisResults.temporalPatterns =
                    analyzeTemporalPatterns(runs[r].incidents)]]
  /\ UNCHANGED <<store, clock>>

Series(r) ==
  /\ runs[r].pc = "crimeSeries"
  /\ runs' = [runs EXCEPT ![r] =
       [@ EXCEPT !.pc = "geographicClusters",
                 !.invoked = Append(@, "crimeSeries"),
                 !.analysisResults.crimeSeries =
                    detectCrimeSeries(runs[r].incidents)]]
  /\ UNCHANGED <<store, clock>>

Geographic(r) ==
  /\ runs[r].pc = "geographicClusters"
  /\ runs' = [runs EXCEPT ![r] =
       IF performGeographicClusteringThrows(runs[r].incidents)
       THEN Rejected([@ EXCEPT !.invoked = Append(@, "geographicClusters")],
                     "TypeError")
       ELSE [@ EXCEPT !.pc = "predictiveHotspots",
                      !.invoked = Append(@, "geographicClusters"),
                      !.analysisResults.geographicClusters =
                         performGeographicClustering(runs[r].incidents)]]
  /\ UNCHANGED <<store, clock>>

Predictive(r) ==
  /\ runs[r].pc = "predictiveHotspots"
  /\ runs' = [runs EXCEPT ![r] =
       IF groupByLocationThrows(WithinDays(runs[r].incidents, clock, 14))
       THEN Rejected([@ EXCEPT !.invoked = Append(@, "predictiveHotspots")],
                     "TypeError")
       ELSE [@ EXCEPT !.pc = "riskAssessment",
                      !.invoked = Append(@, "predictiveHotspots"),
                      !.nowPredictive = clock,
                      !.analysisResults.predictiveHotspots =
                         predictFutureHotspots(runs[r].incidents, clock)]]
  /\ UNCHANGED <<store, clock>>

Risk(r) ==
  /\ runs[r].pc = "riskAssessment"
  /\ runs' = [runs EXCEPT ![r] =
       IF groupByLocationThrows(runs[r].incidents)
       THEN Rejected([@ EXCEPT !.invoked = Append(@, "riskAssessment")],
                     "TypeError")
       ELSE [@ EXCEPT !.pc = "combine",
                      !.invoked = Append(@, "riskAssessment"),
                      !.nowRisk = clock,
                      !.analysisResults.riskAssessment =
                         assessAreaRisk(runs[r].incidents, clock)]]
  /\ UNCHANGED <<store, clock>>

\* lines 109-141: filter, sort, statistics, and the returned object
Combine(r) ==
  /\ runs[r].pc = "combine"
  /\ runs' = [runs EXCEPT ![r] =
       [@ EXCEPT
          !.pc = "done",
          !.result =
            [kind |-> "returned", success |-> TRUE,
             patterns |-> RankedPatterns(runs[r].analysisResults,
                            Destructured(runs[r].options).minConfidence),
             statistics |-> generateAdvancedStats(runs[r].incidents,
                                                  runs[r].analysisResults),
             metadata |->
               [analysisDate |-> clock,
                totalIncidents |-> Len(runs[r].incidents),
                timeRange |-> Destructured(runs[r].options).timeRange,
                algorithmsUsed |->
                  <<"hotspots", "temporalPatterns", "crimeSeries",
                    "geographicClusters", "predictiveHotspots",
                    "riskAssessment">>]]]]
  /\ UNCHANGED <<store, clock>>

\* the caller has the outcome; the run's state is dropped
Forget(r) ==
  /\ runs[r].pc \in {"done", "rejected"}
  /\ runs' = [runs EXCEPT ![r] = IdleRun]
  /\ UNCHANGED <<store, clock>>

\* every stretch of a run after the call
Proceed(r) ==
  \/ FetchFails(r)
  \/ FetchReturns(r)
  \/ Temporal(r)
  \/ Series(r)
  \/ Geographic(r)
  \/ Predictive(r)
  \/ Risk(r)
  \/ Combine(r)
  \/ Forget(r)

RunStep(r) ==
  \/ \E options \in OptionChoices : Start(r, options)
  \/ Proceed(r)

(***************************************************************************)
(* Spec: one caller; incidents are created while no run is in flight.      *)
(***************************************************************************)
Next ==
  \/ \E inc \in Catalogue : ~InFlight("r1") /\ InsertIncident(inc)
  \/ Tick
  \/ RunStep("r1")

Spec == Init /\ [][Next]_vars

(***************************************************************************)
(* Properties of the returned result.                                      *)
(***************************************************************************)
Succeeded(r) ==
  /\ runs[r].pc = "done"
  /\ runs[r].result.kind = "returned"
  /\ runs[r].result.success

Returned(r) == runs[r].result.patterns

MinConfidenceOf(r) == Destructured(runs[r].options).minConfidence

\* the detector outputs in the order hotspots, temporal, series, geographic
\* clusters, predictive, risk assessment, each in its emission order
EmissionOrder(r) ==
  LET res == runs[r].analysisResults
  IN Flatten(<<res.hotspots, res.temporalPatterns, res.crimeSeries,
               res.geographicClusters, res.predictiveHotspots,
               res.riskAssessment>>)

\* C1: in every successful result, each returned pattern's confidence lies in
\* [0, 1] and is at least the caller's minConfidence (0.5 when none is given)
C1_ConfidenceBounds ==
  \A r \in RunIds :
    Succeeded(r) =>
      \A i \in DOMAIN Returned(r) :
        /\ RLe(RZero, Returned(r)[i].confidence)
        /\ RLe(Returned(r)[i].confidence, ROne)
        /\ RLe(MinConfidenceOf(r), Returned(r)[i].confidence)

\* a successful run under minConfidence 0.7 that returns a pattern and drops one
C1_Witness ==
  \E r \in RunIds :
    /\ Succeeded(r)
    /\ MinConfidenceOf(r) = R(7, 10)
    /\ Returned(r) # <<>>
    /\ Len(Returned(r)) < Len(EmissionOrder(r))

\* C2: in every successful result, of two adjacent patterns p before q either
\* p has the greater confidence, or the confidences are equal and p has at
\* least as many related incidents as q
C2_RankedOrder ==
  \A r \in RunIds :
    Succeeded(r) =>
      \A i \in 1 .. (Len(Returned(r)) - 1) :
        LET p == Returned(r)[i]
            q == Returned(r)[i + 1]
        IN \/ RLt(q.confidence, p.confidence)
           \/ /\ p.confidence = q.confidence
              /\ Len(p.relatedIncidents) >= Len(q.relatedIncidents)

\* the place of pattern p in that order
EmissionIndex(r, p) ==
  CHOOSE k \in DOMAIN EmissionOrder(r) : EmissionOrder(r)[k] = p

\* two adjacent returned patterns of equal confidence, the first with more
\* related incidents although it was emitted after the second
C2_Witness ==
  \E r \in RunIds :
    /\ Succeeded(r)
    /\ \E i \in 1 .. (Len(Returned(r)) - 1) :
         LET p == Returned(r)[i]
             q == Returned(r)[i + 1]
         IN /\ p.confidence = q.confidence
            /\ Len(p.relatedIncidents) > Len(q.relatedIncidents)
            /\ EmissionIndex(r, p) > EmissionIndex(r, q)

\* C3: two returned patterns of equal confidence and equal number of related
\* incidents stand in the order of the concatenation hotspots, temporal,
\* series, geographic clusters, predictive, risk assessment
C3_StableRanking ==
  \A r \in RunIds :
    Succeeded(r) =>
      \A i, j \in DOMAIN Returned(r) :
        LET p == Returned(r)[i]
            q == Returned(r)[j]
        IN (/\ i < j
            /\ p.confidence = q.confidence
            /\ Len(p.relatedIncidents) = Len(q.relatedIncidents))
           => EmissionIndex(r, p) < EmissionIndex(r, q)

\* a result holding two patterns that tie on both keys, from different detectors
C3_Witness ==
  \E r \in RunIds :
    /\ Succeeded(r)
    /\ \E i, j \in DOMAIN Returned(r) :
         /\ i < j
         /\ Returned(r)[i].confidence = Returned(r)[j].confidence
         /\ Len(Returned(r)[i].relatedIncidents) = Len(Returned(r)[j].relatedIncidents)
         /\ Returned(r)[i].type # Returned(r)[j].type

DetectorNames ==
  {"hotspots", "temporalPatterns", "crimeSeries", "geographicClusters",
   "predictiveHotspots", "riskAssessment"}

\* C4: every pattern a detector emits has a non-empty relatedIncidents, all of
\* whose identifiers belong to incidents of the run's filtered set
C4_RelatedIncidents ==
  \A r \in RunIds :
    \A d \in DetectorNames :
      \A i \in DOMAIN runs[r].analysisResults[d] :
        LET related == runs[r].analysisResults[d][i].relatedIncidents
        IN /\ related # <<>>
           /\ Range(related) \subseteq Range(Ids(runs[r].incidents))

\* a run in which each of the six detectors has emitted a pattern, over a
\* filtered set smaller than the store
C4_Witness ==
  \E r \in RunIds :
    /\ \A d \in DetectorNames : runs[r].analysisResults[d] # <<>>
    /\ Len(runs[r].incidents) < Cardinality(store)

BasicStatsKeys == {"totalIncidents", "timeRange", "crimeTypes", "severityDistribution"}

\* C5: a run whose filtered set has fewer than 3 incidents returns
\* success = false, no pattern and the basic statistics only, with
\* totalIncidents the filtered count, and invokes no detector
C5_InsufficientData ==
  \A r \in RunIds :
    (runs[r].fetch = "ok" /\ Len(runs[r].incidents) < 3) =>
      /\ runs[r].pc = "done"
      /\ runs[r].result.kind = "returned"
      /\ runs[r].result.success = FALSE
      /\ runs[r].result.patterns = <<>>
      /\ DOMAIN runs[r].result.statistics = BasicStatsKeys
      /\ runs[r].result.statistics.totalIncidents = Len(runs[r].incidents)
      /\ runs[r].invoked = <<>>
      /\ runs[r].analysisResults = NoResults

\* a run that fetched exactly two incidents from a store holding more
C5_Witness ==
  \E r \in RunIds :
    /\ runs[r].fetch = "ok"
    /\ Len(runs[r].incidents) = 2
    /\ Cardinality(store) > 2

(***************************************************************************)
(* Three incidents at one location.                                        *)
(***************************************************************************)
\* the run has ended on a filtered set of exactly 3 incidents of one location
ThreeAtOneLocation(r) ==
  /\ runs[r].fetch = "ok"
  /\ runs[r].pc \in {"done", "rejected"}
  /\ Len(runs[r].incidents) = 3
  /\ ~groupByLocationThrows(runs[r].incidents)
  /\ Len(groupByLocation(runs[r].incidents)) = 1

Subtypes(patterns) == {patterns[i].subtype : i \in DOMAIN patterns}

AllShare(incidents, f) ==
  \A i, j \in DOMAIN incidents : f[incidents[i].dateTime] = f[incidents[j].dateTime]

\* C6 as stated: with exactly 3 filtered incidents sharing one location the run
\* succeeds and the temporal, crime-series and geographic-cluster detectors
\* emit nothing
C6_Original ==
  \A r \in RunIds :
    ThreeAtOneLocation(r) =>
      /\ Succeeded(r)
      /\ runs[r].analysisResults.temporalPatterns = <<>>
      /\ runs[r].analysisResults.crimeSeries = <<>>
      /\ runs[r].analysisResults.geographicClusters = <<>>

\* C6 amended: with exactly 3 filtered incidents sharing one location the run
\* succeeds; the crime-series and geographic-cluster detectors and the
\* seasonal analysis emit nothing; the temporal detector emits an hourly
\* pattern exactly when the three incidents share the hour of day, and a
\* daily pattern exactly when they share the day of week
C6_Amended ==
  \A r \in RunIds :
    ThreeAtOneLocation(r) =>
      LET incidents == runs[r].incidents
          temporal == runs[r].analysisResults.temporalPatterns
      IN /\ Succeeded(r)
         /\ runs[r].analysisResults.crimeSeries = <<>>
         /\ runs[r].analysisResults.geographicClusters = <<>>
         /\ "seasonal" \notin Subtypes(temporal)
         /\ "hourly" \in Subtypes(temporal)
              <=> AllShare(incidents, [t \in Times(incidents) |-> GetHours(t)])
         /\ "daily" \in Subtypes(temporal)
              <=> AllShare(incidents, [t \in Times(incidents) |-> GetDay(t)])

\* three incidents of one location and one crime type, for which the hotspot
\* detector and the hourly analysis both emit
C6_Witness ==
  \E r \in RunIds :
    /\ ThreeAtOneLocation(r)
    /\ Len(groupByCrimeType(runs[r].incidents)) = 1
    /\ runs[r].analysisResults.hotspots # <<>>
    /\ "hourly" \in Subtypes(runs[r].analysisResults.temporalPatterns)

(***************************************************************************)
(* Failures.                                                               *)
(***************************************************************************)
\* C8: when the fetch from the store fails, the caller receives a returned
\* result that marks the run as failed, and no detector executes
C8_RetrievalFailureResult ==
  \A r \in RunIds :
    runs[r].fetch = "failed" =>
      /\ runs[r].result.kind = "returned"
      /\ runs[r].result.success = FALSE
      /\ runs[r].invoked = <<>>

\* C9: an incident without a location in the fetched set does not abort the
\* run: the run ends with a returned result
C9_MalformedIncidentTolerated ==
  \A r \in RunIds :
    (/\ runs[r].fetch = "ok"
     /\ groupByLocationThrows(runs[r].incidents)
     /\ ~InFlight(r))
    => runs[r].result.kind = "returned"

(***************************************************************************)
(* Effects on the store.                                                   *)
(***************************************************************************)
\* C10: a step of a run, whatever its outcome, leaves the store and the
\* fetched incidents unchanged, and a run sends the store one query, a read
C10_StoreUnchanged ==
  [][\A r \in RunIds :
       runs'[r] # runs[r] =>
         /\ store' = store
         /\ runs'[r].pc # "idle" => runs'[r].finds = 1
         /\ (runs[r].fetch = "ok" /\ runs'[r].pc # "idle")
              => runs'[r].incidents = runs[r].incidents]_vars

\* a successful run has ended on a full store of which it fetched every
\* incident, and the store still holds them all
C10_Witness ==
  \E r \in RunIds :
    /\ Succeeded(r)
    /\ Cardinality(store) = MaxStore
    /\ Range(runs[r].incidents) = store

(***************************************************************************)
(* SpecRerun: a second call made after the first has returned, over a      *)
(* smaller store, so that two results can be compared.                     *)
(***************************************************************************)
\* the largest number of incidents the store holds when a call is repeated
MaxRerunStore == 3

RerunCatalogue == {inc \in Catalogue : inc._id \in {1, 3, 4, 5, 6, 7}}

RerunOptionChoices ==
  { NoOptions,
    Opt({"timeRange"}, "7days", <<>>, <<>>, RZero),
    Opt({"minConfidence"}, "", <<>>, <<>>, R(7, 10)) }

NextRerun ==
  \/ \E inc \in RerunCatalogue :
       /\ \A r \in RunIds : runs[r].pc = "idle"
       /\ Cardinality(store) < MaxRerunStore
       /\ InsertIncident(inc)
  \/ Tick
  \/ \E options \in RerunOptionChoices : Start("r1", options)
  \/ Proceed("r1")
  \/ \E options \in RerunOptionChoices :
       runs["r1"].pc = "done" /\ Start("r2", options)
  \/ Proceed("r2")

SpecRerun == Init /\ [][NextRerun]_vars

\* the incidents inside the 14-day window when the predictive filter read the
\* clock, and inside the 7-day window when the risk assessor read it
Window14(r) == Range(Ids(WithinDays(runs[r].incidents, runs[r].nowPredictive, 14)))
Window7(r) == Range(Ids(WithinDays(runs[r].incidents, runs[r].nowRisk, 7)))

\* two successful runs on the same fetched sequence with the same options
SameInput(a, b) ==
  /\ Succeeded(a)
  /\ Succeeded(b)
  /\ runs[a].incidents = runs[b].incidents
  /\ runs[a].options = runs[b].options

\* C7 as stated: two runs on the same filtered set with the same options
\* return identical pattern lists whenever the same incidents fall inside the
\* 14-day predictive window at both runs
C7_Original ==
  (SameInput("r1", "r2") /\ Window14("r1") = Window14("r2"))
    => Returned("r1") = Returned("r2")

\* C7 amended: two runs on the same filtered set with the same options return
\* identical pattern lists whenever the same incidents fall inside the 14-day
\* predictive window and inside the 7-day recent-activity window at both runs
C7_Amended ==
  (/\ SameInput("r1", "r2")
   /\ Window14("r1") = Window14("r2")
   /\ Window7("r1") = Window7("r2"))
    => Returned("r1") = Returned("r2")

\* two such runs that read different clocks and return a risk assessment
C7_Witness ==
  /\ SameInput("r1", "r2")
  /\ Window14("r1") = Window14("r2")
  /\ Window7("r1") = Window7("r2")
  /\ runs["r1"].nowRisk # runs["r2"].nowRisk
  /\ runs["r1"].nowPredictive # runs["r2"].nowPredictive
  /\ \E i \in DOMAIN Returned("r2") : Returned("r2")[i].type = "risk-assessment"

(***************************************************************************)
(* SpecOptions: one caller that passes every kind of timeRange value, over *)
(* incidents between 1 and 36 days old.                                    *)
(***************************************************************************)
\* the largest number of incidents the store holds under SpecOptions
MaxOptionsStore == 4

\* incidents 41 to 43 carry the severities the stored schema admits besides
\* critical (models/Incident.js: enum minor, moderate, serious, critical)
OptionsCatalogue ==
  {inc \in Catalogue : inc._id \in {1, 3, 4, 5, 8}} \cup
  { Inc(41, LocAb, "theft", "minor", At(1, 9, 5)),
    Inc(42, LocAb, "assault", "moderate", At(1, 8, 5)),
    Inc(43, LocAb, "theft", "serious", At(1, 9, 7)) }

\* runComprehensiveAnalysis(), ({ timeRange: '7days' }), ... , ({ timeRange:
\* '2weeks' }), ({ timeRange: '' }), ({ timeRange: null })
TimeRangeChoices ==
  { NoOptions,
    Opt({"timeRange"}, "7days", <<>>, <<>>, RZero),
    Opt({"timeRange"}, "30days", <<>>, <<>>, RZero),
    Opt({"timeRange"}, "90days", <<>>, <<>>, RZero),
    Opt({"timeRange"}, "1year", <<>>, <<>>, RZero),
    Opt({"timeRange"}, "2weeks", <<>>, <<>>, RZero),
    Opt({"timeRange"}, "", <<>>, <<>>, RZero),
    Opt({"timeRange"}, Null, <<>>, <<>>, RZero) }

NextOptions ==
  \/ \E inc \in OptionsCatalogue :
       /\ ~InFlight("r1")
       /\ Cardinality(store) < MaxOptionsStore
       /\ InsertIncident(inc)
  \/ Tick
  \/ \E options \in TimeRangeChoices : Start("r1", options)
  \/ Proceed("r1")

SpecOptions == Init /\ [][NextOptions]_vars

KnownTags == {"7days", "30days", "90days", "1year"}

\* the number of days the tag stands for
DaysOfTag(tag) ==
  CASE tag = "7days" -> 7
    [] tag = "30days" -> 30
    [] tag = "90days" -> 90
    [] tag = "1year" -> 365

\* the number of days claimed for the options of a call: that of the tag, and
\* 30 for an absent, unrecognized, null or empty tag
ClaimedDays(options) ==
  IF "timeRange" \in options.given /\ options.timeRange \in KnownTags
  THEN DaysOfTag(options.timeRange)
  ELSE 30

\* C11: the query a call sends carries the lower time bound now - N days, with
\* N = 7, 30, 90, 365 for the four tags and N = 30 for every other value of
\* timeRange; no query is sent without a time bound
C11_LowerTimeBound ==
  [][\A r \in RunIds :
       (runs[r].pc = "idle" /\ runs'[r].pc = "fetching") =>
         runs'[r].filter.dateTime =
           <<clock - ClaimedDays(runs'[r].options) * HoursPerDay>>]_vars

\* the window of a filter: the N of KnownTags for which the bound is a reading
\* of the clock minus N days (the readings lie less than 23 days apart)
AppliedDays(filter) ==
  {n \in {7, 30, 90, 365} :
     \E now \in ClockValues : filter.dateTime = <<now - n * HoursPerDay>>}

\* C12: the metadata of a successful result reports the tag whose window the
\* filter of that run applied, and totalIncidents is the number of incidents
\* fetched
C12_ResolvedTag ==
  \A r \in RunIds :
    Succeeded(r) =>
      LET metadata == runs[r].result.metadata
      IN /\ metadata.totalIncidents = Len(runs[r].incidents)
         /\ metadata.timeRange \in KnownTags
         /\ AppliedDays(runs[r].filter) = {DaysOfTag(metadata.timeRange)}

(***************************************************************************)
(* SpecAnyOrder: the first caller makes the six detector calls in the      *)
(* order of lines 100-107; the second caller, started when the first has   *)
(* succeeded and with the same options, makes the same six calls in an     *)
(* arbitrary order.  The first caller waits while the second is running,   *)
(* and the clock advances between calls only, so that the two callers      *)
(* differ in the order of the detector calls and in nothing else.          *)
(***************************************************************************)
\* the largest number of incidents the store holds under SpecAnyOrder
MaxOrderStore == 4

OrderCatalogue == {inc \in Catalogue : inc._id \in {1, 2, 3, 5, 6}}

OrderOptionChoices == {NoOptions}

\* a call in which the risk assessor leaves out the locations the hotspot
\* detector has reported so far
RunDetectorSkippingHotspots(run, d, now) ==
  LET called == [run EXCEPT !.invoked = Append(@, d)]
      incidents == run.incidents
      reported == {run.analysisResults.hotspots[i].location :
                     i \in DOMAIN run.analysisResults.hotspots}
      risks == assessAreaRisk(incidents, now)
  IN CASE d = "hotspots" ->
            [called EXCEPT !.analysisResults.hotspots = detectCrimeHotspots(incidents)]
       [] d = "temporalPatterns" ->
            [called EXCEPT !.analysisResults.temporalPatterns =
                              analyzeTemporalPatterns(incidents)]
       [] d = "crimeSeries" ->
            [called EXCEPT !.analysisResults.crimeSeries = detectCrimeSeries(incidents)]
       [] d = "geographicClusters" ->
            [called EXCEPT !.analysisResults.geographicClusters =
                              performGeographicClustering(incidents)]
       [] d = "predictiveHotspots" ->
            [called EXCEPT !.nowPredictive = now,
                           !.analysisResults.predictiveHotspots =
                              predictFutureHotspots(incidents, now)]
       [] d = "riskAssessment" ->
            [called EXCEPT !.nowRisk = now,
                           !.analysisResults.riskAssessment =
                              SelectSeqBy(risks, {p \in Range(risks) :
                                                    p.location \notin reported})]

\* one of the six calls of lines 100-107 with the assignment of its value:
\* the call named d, made on the run's incidents when the clock reads now
RunDetector(run, d, now) ==
  LET called == [run EXCEPT !.invoked = Append(@, d)]
      incidents == run.incidents
  IN CASE d = "hotspots" ->
            IF groupByLocationThrows(incidents)
            THEN Rejected(called, "TypeError")
            ELSE [called EXCEPT !.analysisResults.hotspots =
                                   detectCrimeHotspots(incidents)]
       [] d = "temporalPatterns" ->
            [called EXCEPT !.analysisResults.temporalPatterns =
                              analyzeTemporalPatterns(incidents)]
       [] d = "crimeSeries" ->
            [called EXCEPT !.analysisResults.crimeSeries = detectCrimeSeries(incidents)]
       [] d = "geographicClusters" ->
            IF performGeographicClusteringThrows(incidents)
            THEN Rejected(called, "TypeError")
            ELSE [called EXCEPT !.analysisResults.geographicClusters =
                                   performGeographicClustering(incidents)]
       [] d = "predictiveHotspots" ->
            IF groupByLocationThrows(WithinDays(incidents, now, 14))
            THEN Rejected(called, "TypeError")
            ELSE [called EXCEPT !.nowPredictive = now,
                                !.analysisResults.predictiveHotspots =
                                   predictFutureHotspots(incidents, now)]
       [] d = "riskAssessment" ->
            IF groupByLocationThrows(incidents)
            THEN Rejected(called, "TypeError")
            ELSE [called EXCEPT !.nowRisk = now,
                                !.analysisResults.riskAssessment =
                                   assessAreaRisk(incidents, now)]

\* the query answers; the length test of lines 90-97
FetchReturnsAnyOrder(r) ==
  /\ runs[r].pc = "fetching"
  /\ \E incidents \in Find(store, runs[r].filter) :
       runs' = [runs EXCEPT ![r] =
         IF Len(incidents) < 3 THEN InsufficientData(@, incidents)
         ELSE [@ EXCEPT !.pc = "detectors", !.fetch = "ok", !.incidents = incidents]]
  /\ UNCHANGED <<store, clock>>

\* a detector call that has not been made is made; after the sixth, the
\* combination of lines 109-141 follows
DetectInAnyOrder(r) ==
  /\ runs[r].pc = "detectors"
  /\ \E d \in DetectorNames \ Range(runs[r].invoked) :
       LET next == RunDetector(runs[r], d, clock)
       IN runs' = [runs EXCEPT ![r] =
            IF next.pc # "rejected" /\ Range(next.invoked) = DetectorNames
            THEN [next EXCEPT !.pc = "combine"]
            ELSE next]
  /\ UNCHANGED <<store, clock>>

NextAnyOrder ==
  \/ \E inc \in OrderCatalogue :
       /\ \A r \in RunIds : runs[r].pc = "idle"
       /\ Cardinality(store) < MaxOrderStore
       /\ InsertIncident(inc)
  \/ (\A r \in RunIds : runs[r].pc = "idle") /\ Tick
  \/ \E options \in OrderOptionChoices :
       runs["r2"].pc = "idle" /\ Start("r1", options)
  \/ runs["r2"].pc = "idle" /\ Proceed("r1")
  \/ Succeeded("r1") /\ Start("r2", runs["r1"].options)
  \/ FetchFails("r2")
  \/ FetchReturnsAnyOrder("r2")
  \/ DetectInAnyOrder("r2")
  \/ Combine("r2")
  \/ Forget("r2")

SpecAnyOrder == Init /\ [][NextAnyOrder]_vars

\* C13: on the same filtered sequence and with the same options, the six
\* detectors called in any order give the ranked pattern list, ties included,
\* and the detector outputs that the order of lines 100-107 gives
C13_OrderIndependence ==
  SameInput("r1", "r2") =>
    /\ Returned("r2") = Returned("r1")
    /\ runs["r2"].analysisResults = runs["r1"].analysisResults

\* the second caller called the risk assessor first and the hotspot detector
\* last, and the list holds two patterns of different detectors that tie on
\* confidence and on the number of related incidents
C13_Witness ==
  /\ SameInput("r1", "r2")
  /\ runs["r2"].invoked[1] = "riskAssessment"
  /\ runs["r2"].invoked[6] = "hotspots"
  /\ \E i, j \in DOMAIN Returned("r2") :
       /\ i < j
       /\ Returned("r2")[i].confidence = Returned("r2")[j].confidence
       /\ Len(Returned("r2")[i].relatedIncidents) = Len(Returned("r2")[j].relatedIncidents)
       /\ Returned("r2")[i].type # Returned("r2")[j].type

(***************************************************************************)
(* SpecConcurrent: two callers whose runs interleave at every await, while *)
(* the routes create, update and delete incidents at any moment.           *)
(***************************************************************************)
\* incident 1 as PUT /incidents/1 leaves it
UpdatedIncident == Inc(1, LocCd, "assault", "low", At(1, 9, 2))

\* three incidents, and the later version of one of them
ConcurrentCatalogue ==
  {inc \in Catalogue : inc._id \in {1, 3, 5}} \cup {UpdatedIncident}

\* POST /incidents for an _id the collection does not hold
CreateIncident(inc) ==
  /\ \A doc \in store : doc._id # inc._id
  /\ InsertIncident(inc)

\* PUT /incidents/:id: Incident.findByIdAndUpdate
UpdateIncident(inc) ==
  /\ \E doc \in store :
       /\ doc._id = inc._id
       /\ doc # inc
       /\ store' = (store \ {doc}) \cup {inc}
  /\ UNCHANGED <<clock, runs>>

\* DELETE /incidents/:id: Incident.findByIdAndDelete
DeleteIncident(inc) ==
  /\ inc \in store
  /\ store' = store \ {inc}
  /\ UNCHANGED <<clock, runs>>

NextConcurrent ==
  \/ \E inc \in ConcurrentCatalogue : CreateIncident(inc)
  \/ \E inc \in ConcurrentCatalogue : UpdateIncident(inc)
  \/ \E inc \in ConcurrentCatalogue : DeleteIncident(inc)
  \/ \E r \in RunIds : Start(r, NoOptions)
  \/ \E r \in RunIds : Proceed(r)

SpecConcurrent == Init /\ [][NextConcurrent]_vars

\* what the detector named d gives on the incidents alone, the predictive
\* detector reading the clock at nowPredictive and the risk assessor at nowRisk
DetectorAlone(d, incidents, nowPredictive, nowRisk) ==
  CASE d = "hotspots" -> detectCrimeHotspots(incidents)
    [] d = "temporalPatterns" -> analyzeTemporalPatterns(incidents)
    [] d = "crimeSeries" -> detectCrimeSeries(incidents)
    [] d = "geographicClusters" -> performGeographicClustering(incidents)
    [] d = "predictiveHotspots" -> predictFutureHotspots(incidents, nowPredictive)
    [] d = "riskAssessment" -> assessAreaRisk(incidents, nowRisk)

\* C14: whatever the other caller and the routes do meanwhile, a step of a run
\* changes that run only, keeps the sequence the run fetched, adds the output
\* of the called detector on that sequence alone, returns the ranked list and
\* the statistics of the run's own outputs, and leaves nothing behind once the
\* result is returned; a step of a route changes no run
C14_RunsIsolated ==
  [][\A r \in RunIds :
       runs'[r] # runs[r] =>
         LET before == runs[r]
             after == runs'[r]
             called == {d \in DetectorNames :
                          d \in Range(after.invoked) \ Range(before.invoked)}
         IN /\ \A o \in RunIds \ {r} : runs'[o] = runs[o]
            /\ after.pc = "idle" => after = IdleRun
            /\ (before.fetch = "ok" /\ after.pc # "idle") =>
                 after.incidents = before.incidents
            /\ after.pc \notin {"idle", "rejected"} =>
                 \A d \in DetectorNames :
                   after.analysisResults[d] =
                     IF d \in called
                     THEN DetectorAlone(d, after.incidents, clock, clock)
                     ELSE before.analysisResults[d]
            /\ (after.pc = "done" /\ after.result.success) =>
                 LET res == after.analysisResults
                 IN /\ after.result.patterns =
                         SortPatterns(FilterByConfidence(
                           Flatten(<<res.hotspots, res.temporalPatterns,
                                     res.crimeSeries, res.geographicClusters,
                                     res.predictiveHotspots, res.riskAssessment>>),
                           Destructured(after.options).minConfidence))
                    /\ after.result.statistics =
                         generateAdvancedStats(after.incidents, res)
                    /\ after.result.metadata.totalIncidents = Len(after.incidents)]_vars

\* both runs are between two awaits on different fetched sequences, each with
\* detector output, and the store has since lost an incident of the first
\* run's sequence and holds the updated version of another
C14_Witness ==
  /\ runs["r1"].pc = "riskAssessment"
  /\ runs["r2"].pc = "crimeSeries"
  /\ Range(runs["r1"].incidents) # Range(runs["r2"].incidents)
  /\ runs["r1"].analysisResults.temporalPatterns # <<>>
  /\ runs["r2"].analysisResults.temporalPatterns # <<>>
  /\ UpdatedIncident \in store
  /\ \E inc \in Range(runs["r1"].incidents) :
       \A doc \in store : doc._id # inc._id

(***************************************************************************)
(* SpecDetect: one call with the default options on every store drawn from *)
(* a catalogue of fourteen located incidents of the last 30 days: ten at   *)
(* one location, five of them at hour 2, and three at each of the hours 9, *)
(* 14 and 20.  No two have the same dateTime.  Incidents without a         *)
(* location are in the catalogue of Spec.                                  *)
(***************************************************************************)
\* the largest number of incidents the store holds under SpecDetect
MaxDetectStore == 13

DetectCatalogue ==
  { Inc(11, LocAb, "theft", "critical", At(1, 9, 2)),
    Inc(12, LocAbVariant, "theft", "critical", At(1, 8, 2)),
    Inc(13, LocAb, "assault", "high", At(1, 7, 2)),
    Inc(14, LocAb, "assault", "low", At(1, 2, 2)),
    Inc(15, LocAb, "theft", "low", At(0, 20, 2)),
    Inc(16, LocAb, "burglary", "medium", At(1, 9, 9)),
    Inc(17, LocAb, "theft", "low", At(1, 3, 9)),
    Inc(18, LocAb, "assault", "low", At(0, 15, 9)),
    Inc(19, LocAb, "theft", "low", At(1, 5, 14)),
    Inc(20, LocAb, "burglary", "low", At(0, 30, 14)),
    Inc(21, LocCd, "theft", "critical", At(1, 9, 14)),
    Inc(22, LocCd, "assault", "low", At(0, 12, 20)),
    Inc(23, LocCd, "theft", "low", At(1, 1, 20)),
    Inc(24, LocCd, "theft", "medium", At(0, 25, 20)) }

InitDetect ==
  /\ store \in {S \in SUBSET DetectCatalogue : Cardinality(S) <= MaxDetectStore}
  /\ clock = SetMin(ClockValues)
  /\ runs = [r \in RunIds |-> IdleRun]

NextDetect ==
  \/ Start("r1", NoOptions)
  \/ Proceed("r1")

SpecDetect == InitDetect /\ [][NextDetect]_vars

(***************************************************************************)
(* Gating thresholds.                                                      *)
(***************************************************************************)
\* the sizes of the groups or clusters behind the patterns of detector d
EmittedSizes(r, d) ==
  {Len(runs[r].analysisResults[d][i].relatedIncidents) :
     i \in DOMAIN runs[r].analysisResults[d]}

\* no pattern of a run comes from a group or cluster smaller than min[d]
NoneBelow(min) ==
  \A r \in RunIds :
    \A d \in DetectorNames \ {"temporalPatterns"} :
      \A n \in EmittedSizes(r, d) : n >= min[d]

\* the inputs probed for a pattern of a given size: the stores of 3 to 5
\* incidents, in the order the query returns them
ProbeInputs ==
  {CHOOSE q \in SortedByDateDesc(S) : TRUE :
     S \in {T \in SUBSET DetectCatalogue : Cardinality(T) \in 3 .. 5}}

\* some probed input makes detector d emit a pattern for a group of n
CanEmitAt(d, n) ==
  \E incidents \in ProbeInputs :
    \E now \in ClockValues :
      LET patterns == DetectorAlone(d, incidents, now, now)
      IN \E i \in DOMAIN patterns : Len(patterns[i].relatedIncidents) = n

ClaimedThresholds ==
  [hotspots |-> 3, crimeSeries |-> 3, geographicClusters |-> 4,
   predictiveHotspots |-> 2, riskAssessment |-> 1]

EffectiveThresholds ==
  [hotspots |-> 3, crimeSeries |-> 4, geographicClusters |-> 4,
   predictiveHotspots |-> 3, riskAssessment |-> 1]

\* C15 as stated: the smallest group or cluster for which a detector can emit
\* is 3 for the hotspot detector, 3 for the crime-series detector, 4 for the
\* geographic-cluster detector, 2 for the predictive detector and 1 for the
\* risk assessor: no smaller group ever yields a pattern, and for each
\* detector some input with a group of exactly that size does
C15_Original ==
  /\ NoneBelow(ClaimedThresholds)
  /\ \A d \in DOMAIN ClaimedThresholds : CanEmitAt(d, ClaimedThresholds[d])

\* C15 amended: the smallest sizes are 3 for the hotspot detector, 4 for the
\* crime-series detector, 4 for the geographic-cluster detector, 3 for the
\* predictive detector and 1 for the risk assessor; no smaller group ever
\* yields a pattern
C15_Amended == NoneBelow(EffectiveThresholds)

\* a run in which every one of the five detectors has emitted a pattern for a
\* group or cluster of exactly its smallest size
C15_Witness ==
  \E r \in RunIds :
    \A d \in DOMAIN EffectiveThresholds :
      EffectiveThresholds[d] \in EmittedSizes(r, d)

(***************************************************************************)
(* Grouping.                                                               *)
(***************************************************************************)
\* groups partitions incidents by the key function: the keys are distinct,
\* every incident is in exactly one group, and each group holds the incidents
\* of its key in their order in incidents
PartitionsInOrder(groups, incidents, key) ==
  /\ \A i, j \in DOMAIN groups : groups[i].key = groups[j].key => i = j
  /\ \A n \in DOMAIN incidents :
       Cardinality({k \in DOMAIN groups :
                      incidents[n] \in Range(groups[k].members)}) = 1
  /\ \A k \in DOMAIN groups :
       /\ groups[k].members # <<>>
       /\ groups[k].members =
            SelectSeqBy(incidents,
                        {inc \in Range(incidents) : key[inc] = groups[k].key})

\* C16: when a run has called its first detector on the fetched sequence,
\* groupByLocation has returned groups that partition the sequence by the
\* lowercased, trimmed location, each group in the order of the sequence, and
\* groupByCrimeType groups that partition it by crime type in the same way
C16_GroupingPartitions ==
  \A r \in RunIds :
    "hotspots" \in Range(runs[r].invoked) =>
      LET incidents == runs[r].incidents
      IN /\ ~(runs[r].pc = "rejected" /\ runs[r].invoked = <<"hotspots">>)
         /\ PartitionsInOrder(groupByLocation(incidents), incidents,
                              [inc \in Range(incidents) |->
                                 Trim(ToLowerCase(inc.location))])
         /\ PartitionsInOrder(groupByCrimeType(incidents), incidents,
                              [inc \in Range(incidents) |-> inc.type])

(***************************************************************************)
(* Hotspots.                                                               *)
(***************************************************************************)
SeverityOrdinal == [low |-> 1, medium |-> 2, high |-> 3, critical |-> 4]

\* 0.4*min(1, count/10) + 0.3*min(1, density/2) + 0.2*(avgSeverity/4)
\* + 0.1*min(1, spread/30 days), with density = count / max(1, days spanned)
ClaimedHotspotConfidence(members) ==
  LET count == Len(members)
      spread == SetMax(Times(members)) - SetMin(Times(members))
      days == RMax(ROne, R(spread, HoursPerDay))
      density == R(count * days[2], days[1])
      avgSeverity ==
        R(SumOver(members, [inc \in Range(members) |-> SeverityOrdinal[inc.severity]]),
          count)
  IN RAdd(RAdd(RMul(R(4, 10), RMin(ROne, R(count, 10))),
               RMul(R(3, 10), RMin(ROne, RMul(density, R(1, 2))))),
          RAdd(RMul(R(2, 10), RMul(avgSeverity, R(1, 4))),
               RMul(R(1, 10), RMin(ROne, R(spread, 30 * HoursPerDay)))))

\* the hotspot detector has returned in run r
HotspotsDetected(r) ==
  /\ "hotspots" \in Range(runs[r].invoked)
  /\ ~(runs[r].pc = "rejected" /\ runs[r].invoked = <<"hotspots">>)

\* the places in the hotspot list of the patterns for location key
HotspotsAt(r, key) ==
  {i \in DOMAIN runs[r].analysisResults.hotspots :
     runs[r].analysisResults.hotspots[i].location = key}

\* C17: the hotspot detector emits exactly one pattern for a location group
\* if the group has 3 or more incidents and the weighted confidence is at
\* least 0.4, and none otherwise; the pattern carries that confidence and the
\* identifiers of the whole group, and every hotspot belongs to a group
C17_HotspotEmission ==
  \A r \in RunIds :
    HotspotsDetected(r) =>
      LET groups == groupByLocation(runs[r].incidents)
          hotspots == runs[r].analysisResults.hotspots
      IN /\ \A i \in DOMAIN hotspots :
              \E k \in DOMAIN groups : groups[k].key = hotspots[i].location
         /\ \A k \in DOMAIN groups :
              LET members == groups[k].members
                  at == HotspotsAt(r, groups[k].key)
              IN IF /\ Len(members) >= 3
                    /\ RLe(R(4, 10), ClaimedHotspotConfidence(members))
                 THEN /\ Cardinality(at) = 1
                      /\ \A i \in at :
                           /\ hotspots[i].confidence = ClaimedHotspotConfidence(members)
                           /\ hotspots[i].relatedIncidents = Ids(members)
                 ELSE at = {}

\* a run over a location of 10 incidents, reported as a hotspot with all 10
\* identifiers, and a location of 3 incidents that is no hotspot
C17_Witness ==
  \E r \in RunIds :
    /\ HotspotsDetected(r)
    /\ \E i \in DOMAIN runs[r].analysisResults.hotspots :
         Len(runs[r].analysisResults.hotspots[i].relatedIncidents) = 10
    /\ \E k \in DOMAIN groupByLocation(runs[r].incidents) :
         LET g == groupByLocation(runs[r].incidents)[k]
         IN Len(g.members) = 3 /\ HotspotsAt(r, g.key) = {}

\* the number of incidents of the given crime type
TypeCount(members, type) ==
  Cardinality({i \in DOMAIN members : members[i].type = type})

\* the crime types with the highest count among the members
DominantTypes(members) ==
  {members[i].type : i \in {j \in DOMAIN members :
     \A k \in DOMAIN members :
       TypeCount(members, members[k].type) <= TypeCount(members, members[j].type)}}

\* the place where a crime type is first encountered
FirstSeen(members, type) == SetMin({i \in DOMAIN members : members[i].type = type})

\* the location group a hotspot of run r was made from
GroupOfHotspot(r, hotspot) ==
  LET groups == groupByLocation(runs[r].incidents)
  IN groups[CHOOSE k \in DOMAIN groups : groups[k].key = hotspot.location].members

\* C18 as stated: the subtype of a hotspot is a crime type with the highest
\* count in its group, and among several such types the one encountered first
C18_Original ==
  \A r \in RunIds :
    HotspotsDetected(r) =>
      \A i \in DOMAIN runs[r].analysisResults.hotspots :
        LET hotspot == runs[r].analysisResults.hotspots[i]
            members == GroupOfHotspot(r, hotspot)
        IN /\ hotspot.subtype \in DominantTypes(members)
           /\ \A t \in DominantTypes(members) :
                FirstSeen(members, hotspot.subtype) <= FirstSeen(members, t)

\* C18 amended: the subtype of a hotspot is a crime type with the highest
\* count in its group, and among several such types the one whose first
\* occurrence in the group comes last
C18_Amended ==
  \A r \in RunIds :
    HotspotsDetected(r) =>
      \A i \in DOMAIN runs[r].analysisResults.hotspots :
        LET hotspot == runs[r].analysisResults.hotspots[i]
            members == GroupOfHotspot(r, hotspot)
        IN /\ hotspot.subtype \in DominantTypes(members)
           /\ \A t \in DominantTypes(members) :
                FirstSeen(members, t) <= FirstSeen(members, hotspot.subtype)

\* a hotspot whose group has two crime types sharing the highest count, and
\* whose subtype is not the type of the group's first incident
C18_Witness ==
  \E r \in RunIds :
    /\ HotspotsDetected(r)
    /\ \E i \in DOMAIN runs[r].analysisResults.hotspots :
         LET hotspot == runs[r].analysisResults.hotspots[i]
             members == GroupOfHotspot(r, hotspot)
         IN /\ Cardinality(DominantTypes(members)) >= 2
            /\ members[1].type \in DominantTypes(members)
            /\ hotspot.subtype # members[1].type

(***************************************************************************)
(* Risk levels.                                                            *)
(***************************************************************************)
\* score >= 0.7 gives high, 0.5 <= score < 0.7 gives medium, lower gives low
ClaimedRiskLevel(score) ==
  IF RLe(R(7, 10), score) THEN "high"
  ELSE IF RLe(R(5, 10), score) THEN "medium"
  ELSE "low"

\* C19: every temporal, series and cluster pattern a run has detected is
\* rated from its confidence with the same pair of thresholds: high from
\* 0.7, medium from 0.5, low below
C19_SameThresholds ==
  \A r \in RunIds :
    \A d \in {"temporalPatterns", "crimeSeries", "geographicClusters"} :
      \A i \in DOMAIN runs[r].analysisResults[d] :
        runs[r].analysisResults[d][i].riskLevel
          = ClaimedRiskLevel(runs[r].analysisResults[d][i].confidence)

(***************************************************************************)
(* Hourly analysis.                                                        *)
(***************************************************************************)
HoursOfDay == 0 .. (HoursPerDay - 1)

\* the places in the sequence of the incidents at hour h of the day
HourBucket(incidents, h) ==
  {i \in DOMAIN incidents : incidents[i].dateTime % HoursPerDay = h}

\* the temporal detector has returned in run r
TemporalDetected(r) ==
  /\ "temporalPatterns" \in Range(runs[r].invoked)
  /\ ~(runs[r].pc = "rejected" /\ runs[r].invoked[Len(runs[r].invoked)] = "temporalPatterns")

\* the places of the hourly patterns among the temporal patterns of run r
HourlyPlaces(r) ==
  {i \in DOMAIN runs[r].analysisResults.temporalPatterns :
     runs[r].analysisResults.temporalPatterns[i].subtype = "hourly"}

\* C20: the hourly patterns of a run have distinct peak hours; their number
\* is the number of hour buckets of 3 or more incidents, at most 3; no bucket
\* left out is larger than one reported; and each pattern has confidence
\* min(0.9, 4 * count / total), the bucket's incidents as relatedIncidents
\* and the bucket's share of the total, to a tenth of a percent
C20_HourlyPatterns ==
  \A r \in RunIds :
    TemporalDetected(r) =>
      LET incidents == runs[r].incidents
          total == Len(incidents)
          patterns == runs[r].analysisResults.temporalPatterns
          places == HourlyPlaces(r)
          peaks == {patterns[i].statistics.peakHour : i \in places}
          eligible == {h \in HoursOfDay : Cardinality(HourBucket(incidents, h)) >= 3}
      IN /\ \A i, j \in places :
              patterns[i].statistics.peakHour = patterns[j].statistics.peakHour => i = j
         /\ peaks \subseteq eligible
         /\ Cardinality(peaks) = IF Cardinality(eligible) <= 3
                                 THEN Cardinality(eligible) ELSE 3
         /\ \A h \in eligible \ peaks : \A g \in peaks :
              Cardinality(HourBucket(incidents, h)) <= Cardinality(HourBucket(incidents, g))
         /\ \A i \in places :
              LET bucket == HourBucket(incidents, patterns[i].statistics.peakHour)
                  count == Cardinality(bucket)
                  percentage == patterns[i].statistics.percentage
              IN /\ patterns[i].confidence = RMin(R(9, 10), R(4 * count, total))
                 /\ patterns[i].relatedIncidents
                      = Ids(SelectSeqBy(incidents, {incidents[k] : k \in bucket}))
                 /\ 2 * (percentage * total - 1000 * count) <= total
                 /\ 2 * (1000 * count - percentage * total) <= total

\* 5 of 10 analysed incidents at hour 2: an hourly pattern with peakHour 2,
\* the 5 incidents and 50.0 percent
C20_Witness ==
  \E r \in RunIds :
    /\ TemporalDetected(r)
    /\ Len(runs[r].incidents) = 10
    /\ Cardinality(HourBucket(runs[r].incidents, 2)) = 5
    /\ \E i \in HourlyPlaces(r) :
         LET p == runs[r].analysisResults.temporalPatterns[i]
         IN /\ p.statistics.peakHour = 2
            /\ p.statistics.percentage = 500
            /\ Len(p.relatedIncidents) = 5
    /\ Cardinality(HourlyPlaces(r)) = 2

\* four hour buckets of 3 or more incidents, of which three are reported
C20_WitnessTopThree ==
  \E r \in RunIds :
    /\ TemporalDetected(r)
    /\ Cardinality({h \in HoursOfDay :
                      Cardinality(HourBucket(runs[r].incidents, h)) >= 3}) = 4
    /\ Cardinality(HourlyPlaces(r)) = 3

(***************************************************************************)
(* Crime series.                                                           *)
(***************************************************************************)
\* detector d has returned in run r
Detected(r, d) ==
  /\ d \in Range(runs[r].invoked)
  /\ ~(runs[r].pc = "rejected" /\ runs[r].invoked[Len(runs[r].invoked)] = d)

\* the crime types of the analysed incidents of run r with the given identifiers
TypesOfIds(r, ids) ==
  {runs[r].incidents[k].type :
     k \in {j \in DOMAIN runs[r].incidents : runs[r].incidents[j]._id \in Range(ids)}}

\* C21: the crime-series patterns of a run have pairwise disjoint
\* relatedIncidents, and the incidents of one series are of a single crime type
C21_SeriesDisjoint ==
  \A r \in RunIds :
    Detected(r, "crimeSeries") =>
      LET series == runs[r].analysisResults.crimeSeries
      IN /\ \A i, j \in DOMAIN series :
              i # j => Range(series[i].relatedIncidents)
                         \cap Range(series[j].relatedIncidents) = {}
         /\ \A i \in DOMAIN series :
              Cardinality(TypesOfIds(r, series[i].relatedIncidents)) = 1

\* a run with two crime series, over analysed incidents of three crime types
C21_Witness ==
  \E r \in RunIds :
    /\ Detected(r, "crimeSeries")
    /\ Len(runs[r].analysisResults.crimeSeries) = 2
    /\ Cardinality({runs[r].incidents[k].type : k \in DOMAIN runs[r].incidents}) = 3

\* the analysed incidents of run r with the given identifiers
MembersOfIds(r, ids) ==
  {inc \in Range(runs[r].incidents) : inc._id \in Range(ids)}

\* over time the severity never decreases and rises at least once
SeverityRises(members) ==
  /\ \A a, b \in members :
       a.dateTime < b.dateTime
         => SeverityOrdinal[a.severity] <= SeverityOrdinal[b.severity]
  /\ \E a, b \in members :
       a.dateTime < b.dateTime /\ SeverityOrdinal[a.severity] < SeverityOrdinal[b.severity]

SeverityConstant(members) ==
  \A a, b \in members : a.severity = b.severity

\* over time the severity never rises and decreases at least once
SeverityFalls(members) ==
  /\ \A a, b \in members :
       a.dateTime < b.dateTime
         => SeverityOrdinal[a.severity] >= SeverityOrdinal[b.severity]
  /\ \E a, b \in members :
       a.dateTime < b.dateTime /\ SeverityOrdinal[a.severity] > SeverityOrdinal[b.severity]

\* C22: of two crime series of a run, one whose severity rises over time has
\* another escalationPattern than one whose severity is constant or falls
C22_EscalationReflectsSeverity ==
  \A r \in RunIds :
    Detected(r, "crimeSeries") =>
      LET series == runs[r].analysisResults.crimeSeries
      IN \A i, j \in DOMAIN series :
           LET rising == MembersOfIds(r, series[i].relatedIncidents)
               other == MembersOfIds(r, series[j].relatedIncidents)
           IN (SeverityRises(rising) /\ (SeverityConstant(other) \/ SeverityFalls(other)))
                => series[i].statistics.escalationPattern
                     # series[j].statistics.escalationPattern

(***************************************************************************)
(* Geographic clusters.                                                    *)
(***************************************************************************)
\* the sum of the counts of a distribution
CountSum(distribution) ==
  SumOver(distribution, [e \in Range(distribution) |-> e.count])

\* C23: every geographic cluster a run emits has 4 or more members,
\* confidence min(0.8, size/8) of at least 0.4, and a crime-type distribution
\* whose counts sum to the number of members
C23_ClusterContract ==
  \A r \in RunIds :
    Detected(r, "geographicClusters") =>
      \A i \in DOMAIN runs[r].analysisResults.geographicClusters :
        LET cluster == runs[r].analysisResults.geographicClusters[i]
            size == Len(cluster.relatedIncidents)
        IN /\ size >= 4
           /\ cluster.confidence = RMin(R(8, 10), R(size, 8))
           /\ RLe(R(4, 10), cluster.confidence)
           /\ CountSum(cluster.statistics.crimeTypes) = size

(***************************************************************************)
(* Predictive hotspots.                                                    *)
(***************************************************************************)
\* the members at most 14 days older than the clock reading
InsideWindow(members, now) ==
  SelectSeqBy(members,
              {inc \in Range(members) : now - inc.dateTime <= 14 * HoursPerDay})

\* min(0.8, count / 5)
ClaimedTrendConfidence(count) == RMin(R(8, 10), R(count, 5))

\* the places in the prediction list of the patterns for location key
PredictionsAt(r, key) ==
  {i \in DOMAIN runs[r].analysisResults.predictiveHotspots :
     runs[r].analysisResults.predictiveHotspots[i].location = key}

\* C24: the predictive detector emits one pattern for a location if the
\* location has 2 or more incidents at most 14 days older than the clock
\* reading of the detection and the trend confidence is at least 0.6, and none
\* otherwise; the pattern has 0.8 times the trend confidence and the
\* location's incidents inside the window, and every prediction belongs to a
\* location of the analysed incidents
C24_PredictionEmission ==
  \A r \in RunIds :
    Detected(r, "predictiveHotspots") =>
      LET groups == groupByLocation(runs[r].incidents)
          predictions == runs[r].analysisResults.predictiveHotspots
      IN /\ \A i \in DOMAIN predictions :
              \E k \in DOMAIN groups : groups[k].key = predictions[i].location
         /\ \A k \in DOMAIN groups :
              LET recent == InsideWindow(groups[k].members, runs[r].nowPredictive)
                  at == PredictionsAt(r, groups[k].key)
              IN IF /\ Len(recent) >= 2
                    /\ RLe(R(6, 10), ClaimedTrendConfidence(Len(recent)))
                 THEN /\ Cardinality(at) = 1
                      /\ \A i \in at :
                           /\ predictions[i].confidence
                                = RMul(R(8, 10), ClaimedTrendConfidence(Len(recent)))
                           /\ predictions[i].relatedIncidents = Ids(recent)
                 ELSE at = {}

\* a run with a prediction for a location that also has incidents outside the
\* window, and a location with 2 incidents inside the window and no prediction
C24_Witness ==
  \E r \in RunIds :
    /\ Detected(r, "predictiveHotspots")
    /\ \E k, n \in DOMAIN groupByLocation(runs[r].incidents) :
         LET groups == groupByLocation(runs[r].incidents)
             now == runs[r].nowPredictive
         IN /\ PredictionsAt(r, groups[k].key) # {}
            /\ Len(InsideWindow(groups[k].members, now)) < Len(groups[k].members)
            /\ Len(InsideWindow(groups[n].members, now)) = 2
            /\ PredictionsAt(r, groups[n].key) = {}

\* every member is more than 7 days older than the clock reading: none falls
\* in the later half of the 14-day window
AllInEarlierHalf(members, now) ==
  \A inc \in Range(members) : now - inc.dateTime > 7 * HoursPerDay

\* C25: no predictive-hotspot is emitted for a location whose incidents inside
\* the 14-day window all fall in the earlier half of the window
C25_NoPredictionWithoutIncrease ==
  \A r \in RunIds :
    Detected(r, "predictiveHotspots") =>
      LET groups == groupByLocation(runs[r].incidents)
      IN \A k \in DOMAIN groups :
           LET recent == InsideWindow(groups[k].members, runs[r].nowPredictive)
           IN (recent # <<>> /\ AllInEarlierHalf(recent, runs[r].nowPredictive))
                => PredictionsAt(r, groups[k].key) = {}

(***************************************************************************)
(* Area risk.                                                              *)
(***************************************************************************)
\* 0.4*(avgSeverity/4) + 0.4*min(1, count/10) + 0.2*min(1, 2*recent/count),
\* recent the number of members at most 7 days older than the clock reading
ClaimedRiskScore(members, now) ==
  LET count == Len(members)
      recent == Cardinality({i \in DOMAIN members :
                               now - members[i].dateTime <= 7 * HoursPerDay})
      avgSeverity ==
        R(SumOver(members, [inc \in Range(members) |-> SeverityOrdinal[inc.severity]]),
          count)
  IN RAdd(RAdd(RMul(R(4, 10), RMul(avgSeverity, R(1, 4))),
               RMul(R(4, 10), RMin(ROne, R(count, 10)))),
          RMul(R(2, 10), RMin(ROne, R(2 * recent, count))))

\* the places in the risk list of the patterns for location key
AssessmentsAt(r, key) ==
  {i \in DOMAIN runs[r].analysisResults.riskAssessment :
     runs[r].analysisResults.riskAssessment[i].location = key}

\* C26: the area risk assessor emits one pattern for a location group, of
\* any size, if the risk score is at least 0.5, and none otherwise; the
\* pattern has confidence min(0.9, riskScore + 0.1) and risk level high from
\* a risk score of 0.7 and medium below, and every assessment belongs to a
\* location group
C26_RiskEmission ==
  \A r \in RunIds :
    Detected(r, "riskAssessment") =>
      LET groups == groupByLocation(runs[r].incidents)
          assessments == runs[r].analysisResults.riskAssessment
      IN /\ \A i \in DOMAIN assessments :
              \E k \in DOMAIN groups : groups[k].key = assessments[i].location
         /\ \A k \in DOMAIN groups :
              LET riskScore == ClaimedRiskScore(groups[k].members, runs[r].nowRisk)
                  at == AssessmentsAt(r, groups[k].key)
              IN IF RLe(R(5, 10), riskScore)
                 THEN /\ Cardinality(at) = 1
                      /\ \A i \in at :
                           /\ assessments[i].confidence
                                = RMin(R(9, 10), RAdd(riskScore, R(1, 10)))
                           /\ assessments[i].riskLevel
                                = IF RLe(R(7, 10), riskScore) THEN "high" ELSE "medium"
                 ELSE at = {}

\* a run with an assessment of medium risk for a location of one incident and
\* an assessment of high risk for another location
C26_Witness ==
  \E r \in RunIds :
    /\ Detected(r, "riskAssessment")
    /\ \E i, j \in DOMAIN runs[r].analysisResults.riskAssessment :
         /\ Len(runs[r].analysisResults.riskAssessment[i].relatedIncidents) = 1
         /\ runs[r].analysisResults.riskAssessment[i].riskLevel = "medium"
         /\ runs[r].analysisResults.riskAssessment[j].riskLevel = "high"

\* a run with a location group of 4 or more incidents that gets no assessment
C26_WitnessRejected ==
  \E r \in RunIds :
    /\ Detected(r, "riskAssessment")
    /\ \E k \in DOMAIN groupByLocation(runs[r].incidents) :
         LET g == groupByLocation(runs[r].incidents)[k]
         IN Len(g.members) >= 4 /\ AssessmentsAt(r, g.key) = {}

\* C27: every risk assessment a run emits has confidence in [0.6, 0.9] and a
\* risk level other than low, and a successful run under the default
\* minConfidence of 0.5 returns every risk assessment it emitted
C27_RiskNeverDropped ==
  \A r \in RunIds :
    Detected(r, "riskAssessment") =>
      LET assessments == runs[r].analysisResults.riskAssessment
      IN \A i \in DOMAIN assessments :
           /\ RLe(R(6, 10), assessments[i].confidence)
           /\ RLe(assessments[i].confidence, R(9, 10))
           /\ assessments[i].riskLevel # "low"
           /\ (Succeeded(r) /\ MinConfidenceOf(r) = R(5, 10))
                => assessments[i] \in Range(Returned(r))

\* a successful run under the default minConfidence that returns a risk
\* assessment of confidence 0.6 or 0.9 and drops a pattern of another detector
C27_Witness ==
  \E r \in RunIds :
    /\ Succeeded(r)
    /\ MinConfidenceOf(r) = R(5, 10)
    /\ \E i \in DOMAIN runs[r].analysisResults.riskAssessment :
         /\ runs[r].analysisResults.riskAssessment[i].confidence \in {R(6, 10), R(9, 10)}
         /\ runs[r].analysisResults.riskAssessment[i] \in Range(Returned(r))
    /\ Len(Returned(r)) < Len(EmissionOrder(r))

(***************************************************************************)
(* Double precision.  The predictive confidence trend.confidence * 0.8 and *)
(* the comparisons against 0.6 and minConfidence, computed as the engine   *)
(* computes them: in IEEE 754 binary64 with round to nearest, ties to      *)
(* even.  A natural number is a sequence of limbs, least significant       *)
(* first, without leading zero limbs; a positive double is [m, e] with a   *)
(* mantissa m of exactly 53 bits and the value m * 2^e.                    *)
(***************************************************************************)
LimbBase == 2 ^ 14
MantissaBits == 53

RECURSIVE BigMulSmallCarry(_, _, _)
\* a * k + carry for a factor k from 1 to 2^16; with a = <<>> the limbs of carry
BigMulSmallCarry(a, k, carry) ==
  IF a = <<>>
  THEN (IF carry = 0 THEN <<>>
        ELSE <<carry % LimbBase>> \o BigMulSmallCarry(<<>>, k, carry \div LimbBase))
  ELSE LET prod == Head(a) * k + carry
       IN <<prod % LimbBase>> \o BigMulSmallCarry(Tail(a), k, prod \div LimbBase)

RECURSIVE BigMul(_, _)
BigMul(a, b) ==
  LET RECURSIVE AddCarry(_, _, _)
      AddCarry(x, y, carry) ==
        IF x = <<>> /\ y = <<>> THEN (IF carry = 0 THEN <<>> ELSE <<carry>>)
        ELSE LET sum == (IF x = <<>> THEN 0 ELSE Head(x))
                          + (IF y = <<>> THEN 0 ELSE Head(y)) + carry
             IN <<sum % LimbBase>>
                  \o AddCarry(IF x = <<>> THEN <<>> ELSE Tail(x),
                              IF y = <<>> THEN <<>> ELSE Tail(y),
                              sum \div LimbBase)
  IN IF a = <<>> \/ b = <<>> THEN <<>>
     ELSE LET rest == BigMul(Tail(a), b)
              low == IF Head(a) = 0 THEN <<>> ELSE BigMulSmallCarry(b, Head(a), 0)
          IN AddCarry(low, IF rest = <<>> THEN <<>> ELSE <<0>> \o rest, 0)

\* quotient and remainder of a by a divisor d from 1 to 2^16
BigDivSmall(a, d) ==
  LET RECURSIVE Rec(_)
      Rec(x) ==
        IF x = <<>> THEN [q |-> <<>>, r |-> 0]
        ELSE LET high == Rec(Tail(x))
                 cur == high.r * LimbBase + Head(x)
             IN [q |-> <<cur \div d>> \o high.q, r |-> cur % d]
      RECURSIVE Norm(_)
      Norm(x) ==
        IF x = <<>> THEN <<>>
        ELSE IF x[Len(x)] = 0 THEN Norm(SubSeq(x, 1, Len(x) - 1))
        ELSE x
      res == Rec(a)
  IN [q |-> Norm(res.q), r |-> res.r]

\* the number of bits of a
BigBits(a) ==
  LET RECURSIVE BitsOfInt(_)
      BitsOfInt(n) == IF n = 0 THEN 0 ELSE 1 + BitsOfInt(n \div 2)
  IN IF a = <<>> THEN 0 ELSE 14 * (Len(a) - 1) + BitsOfInt(a[Len(a)])

RECURSIVE BigShiftRight(_, _)
\* a shifted right by k bits, and whether a non-zero bit was shifted out
BigShiftRight(a, k) ==
  IF a = <<>> THEN [n |-> <<>>, sticky |-> FALSE]
  ELSE IF k >= 14
       THEN LET rest == BigShiftRight(Tail(a), k - 14)
            IN [n |-> rest.n, sticky |-> rest.sticky \/ Head(a) # 0]
       ELSE LET cut == BigDivSmall(a, 2 ^ k)
            IN [n |-> cut.q, sticky |-> cut.r # 0]

\* a < b
BigLess(a, b) ==
  LET RECURSIVE LessFrom(_)
      LessFrom(i) ==
        IF i = 0 THEN FALSE
        ELSE IF a[i] # b[i] THEN a[i] < b[i]
        ELSE LessFrom(i - 1)
  IN IF Len(a) # Len(b) THEN Len(a) < Len(b) ELSE LessFrom(Len(a))

\* the double nearest to n * 2^e (plus a fraction of the last bit of n when
\* sticky), for n > 0: round to nearest, ties to even
RoundToDouble(n, e, sticky) ==
  LET RECURSIVE ShiftLeft(_, _)
      ShiftLeft(a, k) ==
        IF k >= 14 THEN <<0>> \o ShiftLeft(a, k - 14)
        ELSE BigMulSmallCarry(a, 2 ^ k, 0)
      bits == BigBits(n)
  IN IF bits <= MantissaBits
     THEN [m |-> ShiftLeft(n, MantissaBits - bits), e |-> e - (MantissaBits - bits)]
     ELSE LET k == bits - MantissaBits
              cut == BigShiftRight(n, k - 1)
              guard == Head(cut.n) % 2 = 1
              q == BigDivSmall(cut.n, 2).q
              up == guard /\ (sticky \/ cut.sticky \/ Head(q) % 2 = 1)
              m == IF up THEN BigMulSmallCarry(q, 1, 1) ELSE q
          IN IF BigBits(m) > MantissaBits
             THEN [m |-> BigDivSmall(m, 2).q, e |-> e + k + 1]
             ELSE [m |-> m, e |-> e + k]

\* the double p / q of two small positive integers: a decimal literal such as
\* 0.8 = 8/10, or the quotient of two integers such as length / 5; the
\* quotient is taken of p * 2^70, five limbs below the limbs of p
DoubleOfRatio(p, q) ==
  LET scaled == BigDivSmall(<<0, 0, 0, 0, 0>> \o BigMulSmallCarry(<<>>, 1, p), q)
  IN RoundToDouble(scaled.q, 0 - 5 * 14, scaled.r # 0)

\* x * y rounded towards zero
DoubleMulTruncated(x, y) ==
  LET n == BigMul(x.m, y.m)
  IN [m |-> BigShiftRight(n, BigBits(n) - MantissaBits).n,
      e |-> x.e + y.e + (BigBits(n) - MantissaBits)]

\* x * y
DoubleMul(x, y) == RoundToDouble(BigMul(x.m, y.m), x.e + y.e, FALSE)

\* x < y
DoubleLt(x, y) == x.e < y.e \/ (x.e = y.e /\ BigLess(x.m, y.m))

\* the next double above x
DoubleAbove(x) == RoundToDouble(BigMulSmallCarry(x.m, 1, 1), x.e, FALSE)

(***************************************************************************)
(* SpecDouble: predictFutureHotspots and the confidence filter of          *)
(* runComprehensiveAnalysis applied, in double precision, to incident      *)
(* sequences drawn from a catalogue and to the minConfidence of a caller.  *)
(***************************************************************************)
\* two locations; incident 39 is exactly 14 days older than the clock
\* reading and 35 is older
DoubleCatalogue ==
  { Inc(31, LocAb, "theft", "low", At(1, 9, 2)),
    Inc(32, LocAbVariant, "theft", "low", At(1, 8, 2)),
    Inc(33, LocAb, "assault", "high", At(1, 7, 2)),
    Inc(34, LocAb, "assault", "low", At(1, 2, 2)),
    Inc(35, LocAb, "theft", "low", At(0, 20, 2)),
    Inc(36, LocCd, "theft", "critical", At(1, 9, 14)),
    Inc(37, LocCd, "theft", "low", At(1, 5, 14)),
    Inc(38, LocCd, "theft", "low", At(1, 1, 20)),
    Inc(39, LocCd, "assault", "medium", At(0, 27, 12)) }

\* the values a caller passes as minConfidence: the default 0.5, 0.64, the
\* next double above 0.64, and 0.65
MinConfidenceDoubles ==
  { DoubleOfRatio(5, 10), DoubleOfRatio(64, 100),
    DoubleAbove(DoubleOfRatio(64, 100)), DoubleOfRatio(65, 100) }

analyzeTrendsDouble(incidents) ==
  LET locationGroups == groupByLocation(incidents)
      groups == Range(locationGroups)
  IN Emit(locationGroups,
          [g \in groups |-> Len(g.members) >= 2],
          [g \in groups |->
             [location |-> g.key, currentCount |-> Len(g.members),
              isIncreasing |-> TRUE,
              confidence |->
                IF DoubleLt(DoubleOfRatio(Len(g.members), 5), DoubleOfRatio(8, 10))
                THEN DoubleOfRatio(Len(g.members), 5)
                ELSE DoubleOfRatio(8, 10),
              growthRate |-> DoubleOfRatio(1, 10), incidents |-> g.members]])

PredictionOfDouble(trend) ==
  Pat("predictive-hotspot", NoSubtype,
      DoubleMul(trend.confidence, DoubleOfRatio(8, 10)),
      trend.location,
      [currentIncidents |-> trend.currentCount, trendDirection |-> "increasing",
       growthRate |-> trend.growthRate, predictionWindow |-> "7-14 days"],
      Ids(trend.incidents),
      IF ~DoubleLt(trend.confidence, DoubleOfRatio(7, 10)) THEN "high"
      ELSE IF ~DoubleLt(trend.confidence, DoubleOfRatio(5, 10)) THEN "medium"
      ELSE "low")

predictFutureHotspotsDouble(incidents, now) ==
  LET recentIncidents == WithinDays(incidents, now, 14)
      locationTrends == analyzeTrendsDouble(recentIncidents)
      ts == Range(locationTrends)
  IN Emit(locationTrends,
          [t \in ts |-> t.isIncreasing /\ ~DoubleLt(t.confidence, DoubleOfRatio(6, 10))],
          [t \in ts |-> PredictionOfDouble(t)])

\* .filter(pattern => pattern.confidence >= minConfidence)
FilterByConfidenceDouble(patterns, minConfidence) ==
  SelectSeqBy(patterns,
              {p \in Range(patterns) : ~DoubleLt(p.confidence, minConfidence)})

InitDouble ==
  /\ store \in SUBSET DoubleCatalogue
  /\ clock = SetMin(ClockValues)
  /\ runs = [r \in RunIds |-> IdleRun]

\* the detector is applied to the incidents, newest first
PredictDouble(r) ==
  /\ runs[r].pc = "idle"
  /\ \E incidents \in Find(store, NoFilter) :
       runs' = [runs EXCEPT ![r] =
         [@ EXCEPT
            !.pc = "combine",
            !.incidents = incidents,
            !.nowPredictive = clock,
            !.invoked = <<"predictiveHotspots">>,
            !.analysisResults =
              [NoResults EXCEPT
                 !.predictiveHotspots = predictFutureHotspotsDouble(incidents, clock)]]]
  /\ UNCHANGED <<store, clock>>

\* the filter is applied to the predictions under the caller's minConfidence
FilterDouble(r, minConfidence) ==
  /\ runs[r].pc = "combine"
  /\ runs' = [runs EXCEPT ![r] =
       [@ EXCEPT
          !.pc = "done",
          !.options = [@ EXCEPT !.given = {"minConfidence"},
                                !.minConfidence = minConfidence],
          !.result =
            [kind |-> "returned", success |-> TRUE,
             patterns |-> FilterByConfidenceDouble(
                            runs[r].analysisResults.predictiveHotspots,
                            minConfidence)]]]
  /\ UNCHANGED <<store, clock>>

NextDouble ==
  \/ PredictDouble("r1")
  \/ \E minConfidence \in MinConfidenceDoubles : FilterDouble("r1", minConfidence)

SpecDouble == InitDouble /\ [][NextDouble]_vars

\* x <= y
DoubleLe(x, y) == x = y \/ DoubleLt(x, y)

\* the prediction list of run r
Predictions(r) == runs[r].analysisResults.predictiveHotspots

\* C28 as stated: every prediction has 3 or more related incidents and
\* confidence 0.48 with exactly 3 and 0.64 with 4 or more; under the default
\* minConfidence 0.5 only predictions of 4 or more incidents are returned,
\* and under a minConfidence above 0.64 none is returned
C28_Original ==
  \A r \in RunIds :
    /\ runs[r].pc \in {"combine", "done"} =>
         \A i \in DOMAIN Predictions(r) :
           LET p == Predictions(r)[i]
           IN /\ Len(p.relatedIncidents) >= 3
              /\ DoubleLe(p.confidence, DoubleOfRatio(64, 100))
              /\ Len(p.relatedIncidents) = 3 => p.confidence = DoubleOfRatio(48, 100)
              /\ Len(p.relatedIncidents) >= 4 => p.confidence = DoubleOfRatio(64, 100)
    /\ runs[r].pc = "done" =>
         /\ runs[r].options.minConfidence = DoubleOfRatio(5, 10)
              => \A i \in DOMAIN Returned(r) : Len(Returned(r)[i].relatedIncidents) >= 4
         /\ DoubleLt(DoubleOfRatio(64, 100), runs[r].options.minConfidence)
              => Returned(r) = <<>>

\* 0.8 * 0.8 in double precision: 0.6400000000000001, the next double above 0.64
ProductBound == DoubleAbove(DoubleOfRatio(64, 100))

\* C28 amended: every prediction has 3 or more related incidents and
\* confidence 0.48 with exactly 3 and 0.6400000000000001 with 4 or more;
\* under the default minConfidence 0.5 only predictions of 4 or more incidents
\* are returned, and under a minConfidence above 0.6400000000000001 none is
C28_Amended ==
  \A r \in RunIds :
    /\ runs[r].pc \in {"combine", "done"} =>
         \A i \in DOMAIN Predictions(r) :
           LET p == Predictions(r)[i]
           IN /\ Len(p.relatedIncidents) >= 3
              /\ DoubleLe(p.confidence, ProductBound)
              /\ Len(p.relatedIncidents) = 3 => p.confidence = DoubleOfRatio(48, 100)
              /\ Len(p.relatedIncidents) >= 4 => p.confidence = ProductBound
    /\ runs[r].pc = "done" =>
         /\ runs[r].options.minConfidence = DoubleOfRatio(5, 10)
              => \A i \in DOMAIN Returned(r) : Len(Returned(r)[i].relatedIncidents) >= 4
         /\ DoubleLt(ProductBound, runs[r].options.minConfidence)
              => Returned(r) = <<>>

\* predictions of 3 and of 4 incidents filtered under a minConfidence one
\* double above 0.64: the prediction of 4 is returned, that of 3 is dropped
C28_Witness ==
  \E r \in RunIds :
    /\ runs[r].pc = "done"
    /\ runs[r].options.minConfidence = ProductBound
    /\ \E i, j \in DOMAIN Predictions(r) :
         /\ Len(Predictions(r)[i].relatedIncidents) = 3
         /\ Len(Predictions(r)[j].relatedIncidents) = 4
         /\ Returned(r) = <<Predictions(r)[j]>>

\* under a minConfidence of 0.65 a prediction of 4 incidents is dropped
C28_WitnessDropped ==
  \E r \in RunIds :
    /\ runs[r].pc = "done"
    /\ runs[r].options.minConfidence = DoubleOfRatio(65, 100)
    /\ \E j \in DOMAIN Predictions(r) : Len(Predictions(r)[j].relatedIncidents) = 4
    /\ Returned(r) = <<>>

(***************************************************************************)
(* Statistics.                                                             *)
(***************************************************************************)
\* the number of emitted patterns of run r whose confidence is in the set
EmittedWithConfidence(r, admitted(_)) ==
  Cardinality({i \in DOMAIN EmissionOrder(r) : admitted(EmissionOrder(r)[i].confidence)})

\* C29: in a successful result the per-detector counts, the confidence
\* histogram (high from 0.7, medium from 0.5, low below) and the risk-level
\* histogram each sum to the number of patterns the six detectors emitted;
\* the returned list is no longer than that, and as long exactly when no
\* emitted pattern is below minConfidence
C29_StatisticsBeforeFilter ==
  \A r \in RunIds :
    Succeeded(r) =>
      LET stats == runs[r].result.statistics
          total == Len(EmissionOrder(r))
          IsHigh(c) == RLe(R(7, 10), c)
          IsMedium(c) == RLe(R(5, 10), c) /\ ~RLe(R(7, 10), c)
          IsLow(c) == ~RLe(R(5, 10), c)
          Passes(c) == RLe(MinConfidenceOf(r), c)
      IN /\ stats.patternsDetected.hotspots + stats.patternsDetected.temporalPatterns
              + stats.patternsDetected.crimeSeries
              + stats.patternsDetected.geographicClusters
              + stats.patternsDetected.predictiveHotspots
              + stats.patternsDetected.riskAssessments = total
         /\ stats.confidenceDistribution.high = EmittedWithConfidence(r, IsHigh)
         /\ stats.confidenceDistribution.medium = EmittedWithConfidence(r, IsMedium)
         /\ stats.confidenceDistribution.low = EmittedWithConfidence(r, IsLow)
         /\ stats.confidenceDistribution.high + stats.confidenceDistribution.medium
              + stats.confidenceDistribution.low = total
         /\ stats.riskLevelDistribution.high + stats.riskLevelDistribution.medium
              + stats.riskLevelDistribution.low = total
         /\ Len(Returned(r)) <= total
         /\ Len(Returned(r)) = total <=> EmittedWithConfidence(r, Passes) = total

\* a successful run that drops a pattern and whose histograms have a pattern
\* of low confidence and one of low risk level
C29_Witness ==
  \E r \in RunIds :
    /\ Succeeded(r)
    /\ Len(Returned(r)) < Len(EmissionOrder(r))
    /\ Returned(r) # <<>>
    /\ runs[r].result.statistics.confidenceDistribution.low > 0
    /\ runs[r].result.statistics.riskLevelDistribution.low > 0

\* a successful run under a minConfidence of 0.4 that drops nothing although
\* it has a pattern of low confidence
C29_WitnessNothingDropped ==
  \E r \in RunIds :
    /\ Succeeded(r)
    /\ Len(Returned(r)) = Len(EmissionOrder(r))
    /\ runs[r].result.statistics.confidenceDistribution.low > 0


(***************************************************************************)
(* Average severity of an incident group.                                  *)
(***************************************************************************)
\* the score the four labels of the engine's table carry; any other label 1
ClaimedSeverityScore(label) ==
  IF label \in DOMAIN SeverityOrdinal THEN SeverityOrdinal[label] ELSE 1

\* C30: the average severity a hotspot reports for its (non-empty) group is
\* the mean of the scores low 1, medium 2, high 3, critical 4 and 1 for any
\* other label (minor, moderate, serious of the stored schema included); it
\* lies in [1, 4], and so a quarter of it lies in [0.25, 1]
C30_AverageSeverityRange ==
  \A r \in RunIds :
    HotspotsDetected(r) =>
      \A i \in DOMAIN runs[r].analysisResults.hotspots :
        LET hotspot == runs[r].analysisResults.hotspots[i]
            members == GroupOfHotspot(r, hotspot)
            avgSeverity == hotspot.statistics.averageSeverity
            quarter == RMul(avgSeverity, R(1, 4))
        IN /\ Len(members) > 0
           /\ avgSeverity =
                R(SumOver(members,
                          [inc \in Range(members) |->
                             ClaimedSeverityScore(inc.severity)]),
                  Len(members))
           /\ RLe(R(1, 1), avgSeverity) /\ RLe(avgSeverity, R(4, 1))
           /\ RLe(R(1, 4), quarter) /\ RLe(quarter, ROne)

\* a hotspot over a group holding a minor, a moderate, a serious and a
\* critical incident: average severity (1 + 1 + 1 + 4) / 4
C30_Witness ==
  \E r \in RunIds :
    /\ HotspotsDetected(r)
    /\ \E i \in DOMAIN runs[r].analysisResults.hotspots :
         LET hotspot == runs[r].analysisResults.hotspots[i]
             members == GroupOfHotspot(r, hotspot)
         IN /\ {"minor", "moderate", "serious", "critical"} =
                 {members[k].severity : k \in DOMAIN members}
            /\ Len(members) = 4
            /\ hotspot.statistics.averageSeverity = R(7, 4)

=============================================================================
